---- MODULE Spec2Model ----
(***************************************************************************)
(* Content script of the fab.com content filter (FabFilter, ElementCache,  *)
(* ContentResourceManager, MessageValidator) as a state machine.           *)
(*                                                                         *)
(* Strings are sequences of one-character strings so that trim() and       *)
(* toString() are computed rather than assumed; class names are sequences  *)
(* of segments so that substring selectors are computed.                   *)
(***************************************************************************)
EXTENDS Integers, Sequences, FiniteSets, TLC

(***************************************************************************)
(* Bounds of the model                                                     *)
(***************************************************************************)
\* number of DOM operations (attach / detach / text insertion) of the page
MaxPageOps == 2
\* number of runtime messages delivered to the content script
MaxMsgs == 2
\* number of calls of resourceManager.cleanup()
MaxCleanups == 2
\* number of listeners, timers and styles a client records with a manager
MaxRecords == 2

(***************************************************************************)
(* The page: a fixed element universe.  The page attaches and detaches the *)
(* elements of Detachable; every other element stays under its parent.     *)
(***************************************************************************)
None == "none"
Document == "document"

Wrappers == {"d1", "d2", "d3", "d4", "d5", "d6", "d7", "d8", "d9", "d10"}

Elements ==
  {"html", "body", "S", "K1", "K1s", "K1p", "K1i", "L1", "L1u",
   "K3", "K3p", "K3i", "L3", "L3u", "K4", "K4p", "K4i", "L4",
   "X", "Lx", "Lxu", "K2", "K2p", "K2i", "W2a", "L2a", "L2au",
   "W2b", "L2b", "L2bu"} \cup Wrappers

\* elements in document (pre-)order, the order querySelectorAll returns
DocOrder ==
  <<"html", "body", "S", "K1", "K1s", "K1p", "K1i",
    "d1", "d2", "d3", "d4", "d5", "d6", "d7", "d8", "d9", "d10", "L1", "L1u",
    "K3", "K3p", "K3i", "L3", "L3u", "K4", "K4p", "K4i", "L4",
    "X", "Lx", "Lxu",
    "K2", "K2p", "K2i", "W2a", "L2a", "L2au", "W2b", "L2b", "L2bu">>

\* parentElement of an element while it is attached to its parent
StaticParent ==
  [e \in Elements |->
     CASE e = "html" -> None
       [] e = "body" -> "html"
       [] e \in {"S", "K2"} -> "body"
       [] e \in {"K1", "K3", "K4", "X"} -> "S"
       [] e = "K1s" -> "K1"
       [] e \in {"K1p", "K1i", "d1"} -> "K1s"
       [] e = "d2" -> "d1"  [] e = "d3" -> "d2"  [] e = "d4" -> "d3"
       [] e = "d5" -> "d4"  [] e = "d6" -> "d5"  [] e = "d7" -> "d6"
       [] e = "d8" -> "d7"  [] e = "d9" -> "d8"  [] e = "d10" -> "d9"
       [] e = "L1" -> "d10"
       [] e = "L1u" -> "L1"
       [] e \in {"K3p", "K3i", "L3"} -> "K3"
       [] e = "L3u" -> "L3"
       [] e \in {"K4p", "K4i", "L4"} -> "K4"
       [] e = "Lx" -> "X"
       [] e = "Lxu" -> "Lx"
       [] e \in {"K2p", "K2i", "W2a", "W2b"} -> "K2"
       [] e = "L2a" -> "W2a"
       [] e = "L2au" -> "L2a"
       [] e = "L2b" -> "W2b"
       [] e = "L2bu" -> "L2b"]

\* tag and href prefix of an element
Kind ==
  [e \in Elements |->
     CASE e \in {"L1", "L3", "L4", "Lx", "L2a", "L2b"} -> "a-sellers"
       [] e \in {"K1p", "K3p", "K4p", "K2p"} -> "a-listings"
       [] e \in {"K1i", "K3i", "K4i", "K2i"} -> "img"
       [] e \in {"L1u", "L3u", "Lxu", "L2au", "L2bu"} -> "span"
       [] e = "html" -> "html"
       [] e = "body" -> "body"
       [] OTHER -> "div"]

\* class attribute: a set of class names, each a sequence of segments
FabkitStackRoot == <<"fabkit", "-", "Stack", "-", "root">>
FabkitStackColumn == <<"fabkit", "-", "Stack", "-", "-", "column">>
FabkitCard == <<"fabkit", "-", "Card">>
EllipsisWrapper == <<"fabkit", "-", "Typography", "-", "ellipsisWrapper">>
ResultsClass == <<"results">>

ClassList ==
  [e \in Elements |->
     CASE e = "K1" -> {FabkitStackRoot}
       [] e = "K1s" -> {FabkitStackColumn}
       [] e \in {"K2", "K3", "K4"} -> {FabkitCard}
       [] e \in {"L1u", "L3u", "Lxu", "L2au", "L2bu"} -> {EllipsisWrapper}
       [] e = "S" -> {ResultsClass}
       [] OTHER -> {}]

\* textContent of the text-bearing elements
Sp == " "
TextContent ==
  [e \in Elements |->
     CASE e = "L1u" -> <<Sp, "b", Sp>>
       [] e = "L3u" -> <<Sp, Sp>>
       [] e = "Lxu" -> <<"c">>
       [] e = "L2au" -> <<"B">>
       [] e = "L2bu" -> <<"c", Sp>>
       [] OTHER -> <<>>]

Detachable == {"S", "W2a", "W2b"}
Links == {e \in Elements : Kind[e] = "a-sellers"}

(***************************************************************************)
(* DOM primitives the content script calls                                 *)
(***************************************************************************)
\* parentElement: a detached subtree root has no parent
ParentElement(att, e) ==
  IF e \in Detachable /\ e \notin att THEN None ELSE StaticParent[e]

RECURSIVE StaticChain(_)
\* the ancestors of e in the fully attached page, nearest first
StaticChain(e) ==
  IF StaticParent[e] = None
    THEN <<>>
    ELSE <<StaticParent[e]>> \o StaticChain(StaticParent[e])

StaticAncestors == [e \in Elements |-> StaticChain(e)]

\* the ancestors of e, nearest first: the static chain up to and including
\* the first detached subtree root
AncestorChain(att, e) ==
  LET chain == StaticAncestors[e]
      cut == {i \in 1..Len(chain) : chain[i] \in Detachable \ att}
      stop == IF cut = {} THEN Len(chain)
              ELSE CHOOSE i \in cut : \A j \in cut : i <= j
  IN  IF ParentElement(att, e) = None THEN <<>> ELSE SubSeq(chain, 1, stop)

SeqToSet(s) == {s[i] : i \in 1..Len(s)}

\* document.contains(e)
DocumentContains(att, e) ==
  e = "html" \/ "html" \in SeqToSet(AncestorChain(att, e))

\* the elements strictly below root, in document order
DescendantsOf(att, root) ==
  IF root = Document
    THEN SelectSeq(DocOrder, LAMBDA e : DocumentContains(att, e))
    ELSE SelectSeq(DocOrder, LAMBDA e : root \in SeqToSet(AncestorChain(att, e)))

\* String.prototype.includes on sequences
Includes(s, p) ==
  \E i \in 1..(Len(s) - Len(p) + 1) : SubSeq(s, i, i + Len(p) - 1) = p

\* selector a[href^="/sellers/"]
IsSellerLink(e) == Kind[e] = "a-sellers"
\* selector a[href^="/listings/"]
IsListingLink(e) == Kind[e] = "a-listings"
\* selector img
IsImage(e) == Kind[e] = "img"
\* selector [class*="fabkit-Surface-root"]
IsSurfaceRoot(e) ==
  \E c \in ClassList[e] : Includes(c, <<"fabkit", "-", "Surface", "-", "root">>)
\* selector div[class*="fabkit-Stack"]
IsStackDiv(e) ==
  Kind[e] = "div" /\ \E c \in ClassList[e] : Includes(c, <<"fabkit", "-", "Stack">>)
\* selector .fabkit-Typography-ellipsisWrapper
IsUsernameWrapper(e) == EllipsisWrapper \in ClassList[e]

\* element.matches(selector) for the selectors the script uses
Matches(selector, e) ==
  CASE selector = "a[href^=/sellers/]" -> IsSellerLink(e)
    [] selector = "a[href^=/listings/]" -> IsListingLink(e)
    [] selector = "img" -> IsImage(e)
    [] selector = "[class*=fabkit-Surface-root]" -> IsSurfaceRoot(e)
    [] selector = "div[class*=fabkit-Stack]" -> IsStackDiv(e)
    [] selector = ".fabkit-Typography-ellipsisWrapper" -> IsUsernameWrapper(e)

\* root.querySelectorAll(selector)
QuerySelectorAll(att, root, selector) ==
  SelectSeq(DescendantsOf(att, root), LAMBDA e : Matches(selector, e))

\* root.querySelector(selector): the first match or None
QuerySelector(att, root, selector) ==
  LET all == QuerySelectorAll(att, root, selector)
  IN  IF all = <<>> THEN None ELSE Head(all)

RECURSIVE TrimStart(_)
TrimStart(s) ==
  IF s # <<>> /\ Head(s) = Sp THEN TrimStart(Tail(s)) ELSE s

RECURSIVE TrimEnd(_)
TrimEnd(s) ==
  IF s # <<>> /\ s[Len(s)] = Sp THEN TrimEnd(SubSeq(s, 1, Len(s) - 1)) ELSE s

\* String.prototype.trim
Trim(s) == TrimEnd(TrimStart(s))

(***************************************************************************)
(* ElementCache                                                            *)
(***************************************************************************)
MaxDepth == 10

\* the test of strategy 1 on one ancestor
IsProductCard(att, current) ==
  LET hasProductLink == QuerySelector(att, current, "a[href^=/listings/]") # None
      hasImage == QuerySelector(att, current, "img") # None
      hasFabkitClasses ==
        \E c \in ClassList[current] : Includes(c, <<"fabkit", "-">>)
  IN  /\ hasProductLink
      /\ hasImage
      /\ hasFabkitClasses \/ QuerySelector(att, current, "[class*=fabkit-Surface-root]") # None

RECURSIVE Strategy1(_, _, _)
\* the while loop of findItemContainer: the accepted ancestor or None
Strategy1(att, current, maxDepth) ==
  IF current = None \/ maxDepth = 0
    THEN None
    ELSE IF IsProductCard(att, current)
           THEN current
           ELSE Strategy1(att, ParentElement(att, current), maxDepth - 1)

RECURSIVE OutermostStack(_, _)
\* climb while the parent is a fabkit-Stack-root
OutermostStack(att, productContainer) ==
  LET parent == ParentElement(att, productContainer)
  IN  IF parent # None /\ FabkitStackRoot \in ClassList[parent]
        THEN OutermostStack(att, parent)
        ELSE productContainer

Strategy2(att, sellerLink) ==
  LET closest == SelectSeq(<<sellerLink>> \o AncestorChain(att, sellerLink),
                           LAMBDA e : Matches("div[class*=fabkit-Stack]", e))
  IN  IF closest = <<>>
        THEN None
        ELSE LET productContainer == OutermostStack(att, Head(closest))
             IN  IF /\ QuerySelector(att, productContainer, "a[href^=/listings/]") # None
                    /\ QuerySelector(att, productContainer, "img") # None
                   THEN productContainer
                   ELSE None

\* the result of strategy 1 if it returned, else that of the fallback
FirstOrFallback(first, fallback) == IF first # None THEN first ELSE fallback

findItemContainer(att, sellerLink) ==
  FirstOrFallback(Strategy1(att, ParentElement(att, sellerLink), MaxDepth),
                  Strategy2(att, sellerLink))

\* The DOM queries depend on the page only, so each is evaluated once per
\* page state and looked up afterwards (f @@ <<>> is f as an explicit function).
PageStates == SUBSET Detachable
ScanRoots == Detachable \cup {Document}

\* findItemContainer(link) in each page state
ContainerOf ==
  [p \in PageStates \X Links |-> findItemContainer(p[1], p[2])] @@ <<>>

\* searchRoot.querySelectorAll(this.sellerLinkSelector) in each page state
SellerLinksIn ==
  [p \in PageStates \X ScanRoots |-> QuerySelectorAll(p[1], p[2], "a[href^=/sellers/]")] @@ <<>>

\* link.querySelector('.fabkit-Typography-ellipsisWrapper') in each page state
UsernameWrapperOf ==
  [p \in PageStates \X Links |-> QuerySelector(p[1], p[2], ".fabkit-Typography-ellipsisWrapper")] @@ <<>>

\* the elements document.contains / document.querySelectorAll can reach
InDocument ==
  [att \in PageStates |-> SelectSeq(DocOrder, LAMBDA e : DocumentContains(att, e))] @@ <<>>

\* the loop body without the data-filtered-processed test on the container
ScanLinkIgnoreSeen(acc, link, parent) ==
  IF link \in acc.processed
    THEN acc
    ELSE IF parent # None
      THEN [acc EXCEPT !.fic[link] = @ + 1,
                       !.elements = Append(@, [link |-> link, parent |-> parent]),
                       !.processed = @ \cup {link},
                       !.pattr = @ \cup {parent}]
      ELSE [acc EXCEPT !.fic[link] = @ + 1]

\* the body of the loop over the links; acc is the record
\* [elements (the result so far), processed (the WeakSet), pattr (the elements
\*  carrying data-filtered-processed), fic (how often findItemContainer ran
\*  on each link)] and parent is findItemContainer(link)
ScanLink(acc, link, parent) ==
  IF link \in acc.processed
    THEN acc
    ELSE IF parent # None /\ parent \notin acc.pattr
      THEN [acc EXCEPT !.fic[link] = @ + 1,
                       !.elements = Append(@, [link |-> link, parent |-> parent]),
                       !.processed = @ \cup {link},
                       !.pattr = @ \cup {parent}]
      ELSE [acc EXCEPT !.fic[link] = @ + 1]

RECURSIVE ScanLinks(_, _, _)
\* for (const link of links)
ScanLinks(att, links, acc) ==
  IF links = <<>>
    THEN acc
    ELSE ScanLinks(att, Tail(links),
                   ScanLink(acc, Head(links), ContainerOf[<<att, Head(links)>>]))

findElementsInNode(att, node, acc) ==
  ScanLinks(att, SellerLinksIn[<<att, node>>], acc)

(***************************************************************************)
(* Runtime messages.  A JavaScript value is modelled by its type and, where *)
(* the code reads it, its content.                                         *)
(***************************************************************************)
Str(s) == [type |-> "string", s |-> s]
Num == [type |-> "number", s |-> <<>>]

UsernameLists ==
  { <<>>, <<Str(<<"b">>)>>, <<Str(<<"c">>)>>, <<Str(<<"b">>), Str(<<"B">>)>> }

Msg(isObject, action, isArray, items, scType, sc) ==
  [isObject |-> isObject, action |-> action,
   usernames |-> [isArray |-> isArray, items |-> items],
   showCount |-> [type |-> scType, b |-> sc]]

UpdateFiltersMsg(items) == Msg(TRUE, "updateFilters", TRUE, items, "undefined", FALSE)
UpdateShowCountMsg(b) == Msg(TRUE, "updateShowCount", FALSE, <<>>, "boolean", b)

ValidMessages ==
  {UpdateFiltersMsg(items) : items \in UsernameLists}
    \cup {UpdateShowCountMsg(b) : b \in BOOLEAN}

InvalidMessages ==
  { Msg(FALSE, "updateFilters", TRUE, <<Str(<<"b">>)>>, "undefined", FALSE),
    Msg(TRUE, "updateBadge", TRUE, <<Str(<<"b">>)>>, "boolean", TRUE),
    Msg(TRUE, "updateFilters", FALSE, <<Str(<<"b">>)>>, "undefined", FALSE),
    Msg(TRUE, "updateFilters", TRUE, <<Str(<<"b">>), Num>>, "undefined", FALSE),
    Msg(TRUE, "updateShowCount", FALSE, <<>>, "string", TRUE),
    Msg(TRUE, "updateShowCount", FALSE, <<>>, "undefined", FALSE) }

Messages == ValidMessages \cup InvalidMessages

\* validate without the Array.isArray check
validateAnyUsernames(message) ==
  IF ~message.isObject
    THEN "Invalid message format"
    ELSE IF message.action \notin {"updateFilters", "updateShowCount"}
      THEN "Invalid action"
      ELSE IF message.action = "updateFilters"
        THEN IF \E i \in 1..Len(message.usernames.items) :
                  message.usernames.items[i].type # "string"
               THEN "Invalid username type"
               ELSE "ok"
        ELSE IF message.showCount.type # "boolean"
               THEN "Invalid showCount format"
               ELSE "ok"

\* MessageValidator.validate: "ok" or the message of the error it throws
validate(message) ==
  IF ~message.isObject
    THEN "Invalid message format"
    ELSE IF message.action \notin {"updateFilters", "updateShowCount"}
      THEN "Invalid action"
      ELSE IF message.action = "updateFilters"
        THEN IF ~message.usernames.isArray
               THEN "Invalid usernames format"
               ELSE IF \E i \in 1..Len(message.usernames.items) :
                         message.usernames.items[i].type # "string"
                      THEN "Invalid username type"
                      ELSE "ok"
        ELSE IF message.showCount.type # "boolean"
               THEN "Invalid showCount format"
               ELSE "ok"

\* new Set(array)
NewSet(items) == {items[i].s : i \in 1..Len(items)}

(***************************************************************************)
(* JavaScript values and JSON text (popup)                                 *)
(***************************************************************************)
Undefined == [type |-> "undefined"]
Null == [type |-> "null"]
Bool(b) == [type |-> "boolean", b |-> b]
Arr(items) == [type |-> "array", items |-> items]
\* an object as the sequence of its <<key, value>> pairs in insertion order
Obj(pairs) == [type |-> "object", pairs |-> pairs]

\* value || false
OrFalse(v) == IF v.type = "boolean" THEN v.b ELSE FALSE

\* obj[key]
Get(obj, key) ==
  IF obj.type = "object" /\ \E i \in 1..Len(obj.pairs) : obj.pairs[i][1] = key
    THEN obj.pairs[CHOOSE i \in 1..Len(obj.pairs) :
                     /\ obj.pairs[i][1] = key
                     /\ \A j \in (i + 1)..Len(obj.pairs) : obj.pairs[j][1] # key][2]
    ELSE Undefined

Quote == "\""
LF == "\n"
TrueText == <<"t", "r", "u", "e">>
FalseText == <<"f", "a", "l", "s", "e">>
NullText == <<"n", "u", "l", "l">>
Digits == {"0", "1", "2", "3", "4", "5", "6", "7", "8", "9"}
UsernamesKey == <<"u", "s", "e", "r", "n", "a", "m", "e", "s">>
SettingsKey == <<"s", "e", "t", "t", "i", "n", "g", "s">>
HideLibraryKey == <<"h", "i", "d", "e", "L", "i", "b", "r", "a", "r", "y">>

\* the indentation of JSON.stringify(value, null, 2) at a nesting depth
Gap == <<Sp, Sp>>
RECURSIVE Indent(_)
Indent(depth) == IF depth = 0 THEN <<>> ELSE Gap \o Indent(depth - 1)

RECURSIVE Stringify(_, _)
RECURSIVE StringifyItems(_, _, _)
RECURSIVE StringifyPairs(_, _, _)
\* the elements of an array from index i on, one per line
StringifyItems(items, i, depth) ==
  <<LF>> \o Indent(depth) \o Stringify(items[i], depth)
    \o (IF i = Len(items) THEN <<>> ELSE <<",">> \o StringifyItems(items, i + 1, depth))

\* the members of an object from index i on, one per line
StringifyPairs(pairs, i, depth) ==
  <<LF>> \o Indent(depth) \o <<Quote>> \o pairs[i][1] \o <<Quote, ":", Sp>>
    \o Stringify(pairs[i][2], depth)
    \o (IF i = Len(pairs) THEN <<>> ELSE <<",">> \o StringifyPairs(pairs, i + 1, depth))

\* JSON.stringify(value, null, 2) of strings without characters to escape,
\* booleans, arrays and objects
Stringify(value, depth) ==
  CASE value.type = "string" -> <<Quote>> \o value.s \o <<Quote>>
    [] value.type = "boolean" -> IF value.b THEN TrueText ELSE FalseText
    [] value.type = "array" ->
         IF value.items = <<>>
           THEN <<"[", "]">>
           ELSE <<"[">> \o StringifyItems(value.items, 1, depth + 1)
                  \o <<LF>> \o Indent(depth) \o <<"]">>
    [] value.type = "object" ->
         IF value.pairs = <<>>
           THEN <<"{", "}">>
           ELSE <<"{">> \o StringifyPairs(value.pairs, 1, depth + 1)
                  \o <<LF>> \o Indent(depth) \o <<"}">>
    [] OTHER -> NullText

\* the outcome of parsing a prefix of a text
Parsed(value, rest) == [ok |-> TRUE, value |-> value, rest |-> rest]
SyntaxError == [ok |-> FALSE, value |-> Undefined, rest |-> <<>>]

RECURSIVE SkipWs(_)
SkipWs(t) == IF t # <<>> /\ Head(t) \in {Sp, LF} THEN SkipWs(Tail(t)) ELSE t

StartsWith(t, p) == Len(t) >= Len(p) /\ SubSeq(t, 1, Len(p)) = p
Drop(t, n) == SubSeq(t, n + 1, Len(t))

RECURSIVE ParseString(_, _)
\* the characters of a string up to its closing quote
ParseString(t, acc) ==
  IF t = <<>> \/ Head(t) = LF
    THEN SyntaxError
    ELSE IF Head(t) = Quote
      THEN Parsed(Str(acc), Tail(t))
      ELSE ParseString(Tail(t), Append(acc, Head(t)))

RECURSIVE ParseDigits(_)
\* a run of digits
ParseDigits(t) ==
  IF t # <<>> /\ Head(t) \in Digits THEN ParseDigits(Tail(t)) ELSE Parsed(Num, t)

RECURSIVE ParseValue(_)
RECURSIVE ParseElements(_, _)
RECURSIVE ElementsAfter(_, _)
RECURSIVE ParseMembers(_, _)
RECURSIVE MemberValue(_, _)
RECURSIVE MembersAfter(_, _, _)

\* after an element r: a comma and more elements, or the closing bracket
ElementsAfter(r, acc) ==
  IF ~r.ok \/ SkipWs(r.rest) = <<>>
    THEN SyntaxError
    ELSE IF Head(SkipWs(r.rest)) = ","
      THEN ParseElements(Tail(SkipWs(r.rest)), Append(acc, r.value))
      ELSE IF Head(SkipWs(r.rest)) = "]"
        THEN Parsed(Arr(Append(acc, r.value)), Tail(SkipWs(r.rest)))
        ELSE SyntaxError

ParseElements(t, acc) == ElementsAfter(ParseValue(t), acc)

\* after the value r of a member: a comma and more members, or the closing brace
MembersAfter(key, r, acc) ==
  IF ~r.ok \/ SkipWs(r.rest) = <<>>
    THEN SyntaxError
    ELSE IF Head(SkipWs(r.rest)) = ","
      THEN ParseMembers(SkipWs(Tail(SkipWs(r.rest))), Append(acc, <<key.s, r.value>>))
      ELSE IF Head(SkipWs(r.rest)) = "}"
        THEN Parsed(Obj(Append(acc, <<key.s, r.value>>)), Tail(SkipWs(r.rest)))
        ELSE SyntaxError

\* after a member's key k: a colon and a value
MemberValue(k, acc) ==
  IF ~k.ok \/ SkipWs(k.rest) = <<>> \/ Head(SkipWs(k.rest)) # ":"
    THEN SyntaxError
    ELSE MembersAfter(k.value, ParseValue(Tail(SkipWs(k.rest))), acc)

ParseMembers(t, acc) ==
  IF t = <<>> \/ Head(t) # Quote
    THEN SyntaxError
    ELSE MemberValue(ParseString(Tail(t), <<>>), acc)

\* one JSON value at the start of u, which starts with no white space
ParseAt(u) ==
  IF u = <<>>
    THEN SyntaxError
    ELSE CASE Head(u) = Quote -> ParseString(Tail(u), <<>>)
           [] Head(u) = "[" ->
                IF StartsWith(SkipWs(Tail(u)), <<"]">>)
                  THEN Parsed(Arr(<<>>), Tail(SkipWs(Tail(u))))
                  ELSE ParseElements(Tail(u), <<>>)
           [] Head(u) = "{" ->
                IF StartsWith(SkipWs(Tail(u)), <<"}">>)
                  THEN Parsed(Obj(<<>>), Tail(SkipWs(Tail(u))))
                  ELSE ParseMembers(SkipWs(Tail(u)), <<>>)
           [] Head(u) \in Digits -> ParseDigits(u)
           [] StartsWith(u, TrueText) -> Parsed(Bool(TRUE), Drop(u, Len(TrueText)))
           [] StartsWith(u, FalseText) -> Parsed(Bool(FALSE), Drop(u, Len(FalseText)))
           [] StartsWith(u, NullText) -> Parsed(Null, Drop(u, Len(NullText)))
           [] OTHER -> SyntaxError

\* one JSON value at the start of t, after white space
ParseValue(t) == ParseAt(SkipWs(t))

\* the value r when only white space follows it
WholeText(r) ==
  IF r.ok /\ SkipWs(r.rest) = <<>> THEN Parsed(r.value, <<>>) ELSE SyntaxError

\* JSON.parse(text)
JSONParse(text) == WholeText(ParseValue(text))

(***************************************************************************)
(* InputValidator (popup)                                                  *)
(***************************************************************************)
maxLength == 100

\* the characters of the model's alphabet that /[a-zA-Z0-9_\-\. ]/ matches
PatternChars == {"a", "b", "c", "B", "_", "-", ".", Sp} \cup Digits

\* validPattern.test(s)
ValidPattern(s) == s # <<>> /\ \A i \in 1..Len(s) : s[i] \in PatternChars

Returned(value) == [ok |-> TRUE, value |-> value]
Thrown == [ok |-> FALSE, value |-> Undefined]

\* a copy of items that puts the latest value first
UniqueNewestFirst(items, acc) ==
  acc \o [i \in 1..Len(items) |-> items[Len(items) + 1 - i]]

\* sanitizeUsername that tests the trimmed value and returns the untrimmed one
sanitizeUsernameUntrimmed(username) ==
  IF username.type # "string"
    THEN Thrown
    ELSE IF Trim(username.s) = <<>> \/ Len(Trim(username.s)) > maxLength
                \/ ~ValidPattern(Trim(username.s))
      THEN Thrown
      ELSE Returned(Str(username.s))

\* InputValidator.sanitizeUsername
sanitizeUsername(username) ==
  IF username.type # "string"
    THEN Thrown
    ELSE IF Trim(username.s) = <<>> \/ Len(Trim(username.s)) > maxLength
                \/ ~ValidPattern(Trim(username.s))
      THEN Thrown
      ELSE Returned(Str(Trim(username.s)))

RECURSIVE Unique(_, _)
\* [...new Set(items)]: first occurrences, in order
Unique(items, acc) ==
  IF items = <<>>
    THEN acc
    ELSE Unique(Tail(items),
                IF Head(items) \in SeqToSet(acc) THEN acc ELSE Append(acc, Head(items)))

(***************************************************************************)
(* State                                                                   *)
(***************************************************************************)
VARIABLES
  attached,            \* the detachable elements currently under their parent
  filteredAttr,        \* elements carrying data-filtered
  processedAttr,       \* elements carrying data-filtered-processed
  processedElements,   \* elementCache.processedElements (links)
  filteredUsernames,   \* this.filteredUsernames
  showBlockedCount,    \* this.showBlockedCount
  blockedCount,        \* this.blockedCount
  pendingMutations,    \* this.pendingMutations, in insertion order
  mutationTimeout,     \* this.mutationTimeout, 0 for null
  rmTimers,            \* resourceManager.timers
  activeTimers,        \* timer ids the browser will still fire
  nextTimerId,         \* the id the next setTimeout returns
  rafQueue,            \* number of scheduled animation-frame callbacks
  records,             \* mutation records queued for the observer callback
  observing,           \* the mutation observer is connected
  listening,           \* handleMessage is registered with runtime.onMessage
  runtimeValid,        \* chrome.runtime.id is defined
  pc,                  \* position of initialize()
  lastBadge,           \* the last updateBadge message sent
  badgeSent,           \* number of updateBadge messages sent
  errorLog,            \* number of console.error calls of handleMessage
  ficCount,            \* findItemContainer calls per link since the last reset
  passCount,           \* number of processing passes run
  burstCount,          \* number of debounce windows opened
  resetCount,          \* number of resetAndRefilter runs
  msgCount,            \* messages delivered to handleMessage
  pageOps,             \* DOM operations the page has performed
  relay,               \* what chrome.runtime.sendMessage does: "up", "rejects", "throws"
  rmObserver,          \* resourceManager.observer is set
  rmListeners,         \* resourceManager.listeners
  domListeners,        \* listeners registered on DOM elements
  rmStyles,            \* number of elements in resourceManager.styles
  styleCount,          \* injected style elements attached to the document
  cleanupCount,        \* calls of resourceManager.cleanup()
  releaseCount,        \* disconnect / remove / clear calls made by the last cleanup()
  storedUsernames,     \* chrome.storage.sync: filteredUsernames, read through || []
  storedHideLibrary,   \* chrome.storage.sync: hideLibraryItems
  outbox,              \* messages the running popup handler still passes to notifyContentScript
  exportFile,          \* the text of the last exported file
  exportedFrom,        \* the settings and the popup version at the last export
  snapshot,            \* the answer to the content script's storage read
  sentToTab,           \* the messages chrome.tabs.sendMessage handed to this tab's listener
  tabActive,           \* this tab is the active tab of the current window
  tabBadgeStates,      \* background: the Map tabBadgeStates, NoEntry for a missing key
  badgeText,           \* the text of the badge per tabId (chrome.action.setBadgeText)
  badgeColor,          \* the colour of the badge per tabId (setBadgeBackgroundColor)
  inFlight,            \* runtime messages sent and not yet handed to the background listener
  tabOpen,             \* the tab has not been closed
  tabUrl,              \* the URL each tab shows
  tabStatus,           \* the status each tab last reported through tabs.onUpdated
  bgErrors,            \* console.error calls of the background listener
  bgSent,              \* runtime messages sent to the background script
  running,             \* popup handlers between their awaits: operation, position, list read
  present,             \* names added with success and not since removed, cleared or imported over
  absent,              \* names removed with success and not since added or imported
  edits                \* popup handlers started

vars ==
  <<attached, filteredAttr, processedAttr, processedElements, filteredUsernames,
    showBlockedCount, blockedCount, pendingMutations, mutationTimeout, rmTimers,
    activeTimers, nextTimerId, rafQueue, records, observing, listening,
    runtimeValid, pc, lastBadge, badgeSent, errorLog, ficCount, passCount,
    burstCount, resetCount, msgCount, pageOps, relay, rmObserver, rmListeners,
    domListeners, rmStyles, styleCount, cleanupCount, releaseCount,
    storedUsernames, storedHideLibrary, outbox, exportFile, exportedFrom, snapshot,
    sentToTab, tabActive, tabBadgeStates, badgeText, badgeColor, inFlight, tabOpen,
    tabUrl, tabStatus, bgErrors, bgSent, running, present, absent, edits>>

rmVars == <<rmObserver, rmListeners, domListeners, rmStyles, styleCount>>
popupVars == <<storedUsernames, storedHideLibrary, outbox, exportFile, exportedFrom>>
tabVars == <<snapshot, sentToTab, tabActive>>
\* what lives outside the content script
bgVars ==
  <<tabBadgeStates, badgeText, badgeColor, inFlight, tabOpen, tabUrl, tabStatus,
    bgErrors, bgSent>>
editVars == <<running, present, absent, edits>>
\* the relay, the background script and the popup handlers in progress
envVars == <<relay, bgVars, editVars>>
outsideVars == <<envVars, popupVars, tabVars>>
lifeVars == <<outsideVars, cleanupCount, releaseCount>>
domVars == <<filteredAttr, processedAttr, processedElements, blockedCount, ficCount>>
timerVars == <<mutationTimeout, rmTimers, activeTimers, nextTimerId>>
badgeVars == <<lastBadge, badgeSent>>

(***************************************************************************)
(* FabFilter: filtering                                                    *)
(***************************************************************************)
\* the engine state a scan works on
Engine ==
  [processed |-> processedElements, pattr |-> processedAttr,
   fattr |-> filteredAttr, count |-> blockedCount, fic |-> ficCount]

\* filterElement that counts down for every seller that is not filtered
filterElementCountDown(att, names, eng, el) ==
  LET usernameWrapper == UsernameWrapperOf[<<att, el.link>>]
      username == Trim(TextContent[usernameWrapper])
  IN  IF usernameWrapper = None \/ username = <<>>
        THEN eng
        ELSE IF username \in names
          THEN IF el.parent \in eng.fattr
                 THEN eng
                 ELSE [eng EXCEPT !.fattr = @ \cup {el.parent}, !.count = @ + 1]
          ELSE [eng EXCEPT !.fattr = @ \ {el.parent}, !.count = @ - 1]

\* filterElement that counts a filtered seller without looking at the marker
filterElementAlwaysCount(att, names, eng, el) ==
  LET usernameWrapper == UsernameWrapperOf[<<att, el.link>>]
      username == Trim(TextContent[usernameWrapper])
  IN  IF usernameWrapper = None \/ username = <<>>
        THEN eng
        ELSE IF username \in names
          THEN [eng EXCEPT !.fattr = @ \cup {el.parent}, !.count = @ + 1]
          ELSE [eng EXCEPT !.fattr = @ \ {el.parent}]

\* filterElement without the test for an empty username
filterElementNoEmptyTest(att, names, eng, el) ==
  LET usernameWrapper == UsernameWrapperOf[<<att, el.link>>]
      username == Trim(TextContent[usernameWrapper])
  IN  IF usernameWrapper = None
        THEN eng
        ELSE IF username \in names /\ el.parent \notin eng.fattr
          THEN [eng EXCEPT !.fattr = @ \cup {el.parent}, !.count = @ + 1]
          ELSE IF username \notin names /\ el.parent \in eng.fattr
            THEN [eng EXCEPT !.fattr = @ \ {el.parent}, !.count = @ - 1]
            ELSE eng

filterElement(att, names, eng, el) ==
  LET usernameWrapper == UsernameWrapperOf[<<att, el.link>>]
      username == Trim(TextContent[usernameWrapper])
      shouldFilter == username \in names
      isCurrentlyFiltered == el.parent \in eng.fattr
  IN  IF usernameWrapper = None
        THEN eng
        ELSE IF username = <<>>
          THEN eng
          ELSE IF shouldFilter /\ ~isCurrentlyFiltered
            THEN [eng EXCEPT !.fattr = @ \cup {el.parent}, !.count = @ + 1]
            ELSE IF ~shouldFilter /\ isCurrentlyFiltered
              THEN [eng EXCEPT !.fattr = @ \ {el.parent}, !.count = @ - 1]
              ELSE eng

RECURSIVE FilterEach(_, _, _, _)
\* elements.forEach(element => this.filterElement(element))
FilterEach(att, names, eng, elements) ==
  IF elements = <<>>
    THEN eng
    ELSE FilterEach(att, names, filterElement(att, names, eng, Head(elements)),
                    Tail(elements))

\* filterElement on each pair found, in the engine state the search left
FilterFound(att, names, eng, found) ==
  FilterEach(att, names,
             [eng EXCEPT !.processed = found.processed,
                         !.pattr = found.pattr, !.fic = found.fic],
             found.elements)

\* findElementsInNode(node) followed by filterElement on each result
ScanNode(att, names, eng, node) ==
  FilterFound(att, names, eng,
              findElementsInNode(att, node,
                [elements |-> <<>>, processed |-> eng.processed,
                 pattr |-> eng.pattr, fic |-> eng.fic]))

RECURSIVE DigitsOf(_)
DigitsOf(n) ==
  LET digit == <<"0", "1", "2", "3", "4", "5", "6", "7", "8", "9">>[(n % 10) + 1]
  IN  IF n < 10 THEN <<digit>> ELSE Append(DigitsOf(n \div 10), digit)

\* Number.prototype.toString
toString(n) == IF n < 0 THEN <<"-">> \o DigitsOf(-n) ELSE DigitsOf(n)

BlockedColor == "#f44336"
NeutralColor == "#4CAF50"

\* updateBadge that shows the count whatever the show-count flag is
BadgeMessageIgnoreFlag(show, count) ==
  [action |-> "updateBadge",
   text |-> IF count > 0 THEN toString(count) ELSE <<>>,
   color |-> IF count > 0 THEN BlockedColor ELSE NeutralColor]

\* the message updateBadge builds
BadgeMessage(show, count) ==
  IF show
    THEN [action |-> "updateBadge",
          text |-> IF count > 0 THEN toString(count) ELSE <<>>,
          color |-> IF count > 0 THEN BlockedColor ELSE NeutralColor]
    ELSE [action |-> "updateBadge", text |-> <<>>, color |-> NeutralColor]

\* what becomes of a chrome.runtime.sendMessage call made now
SendOutcome ==
  IF ~runtimeValid THEN "skipped"
  ELSE IF relay = "up" THEN "delivered"
  ELSE IF relay = "rejects" THEN "rejected"
  ELSE "threw"

\* sendMessageSafely without its try / catch
sendMessageUnguarded(outcome) == IF outcome = "threw" THEN "thrown" ELSE "returned"

\* sendMessageSafely: how the call ends for its caller; the try / catch and the
\* .catch of the promise swallow every failure
sendMessageSafely(outcome) == "returned"

\* updateBadge returns to its caller
BadgeReturns == sendMessageSafely(SendOutcome) = "returned"

\* updateBadge that sends nothing
updateBadgeSilent(show, count, n) == UNCHANGED badgeVars

\* updateBadge called n times in one handler, through sendMessageSafely;
\* lastBadge and badgeSent record the messages that reached the relay
updateBadge(show, count, n) ==
  IF SendOutcome = "delivered"
    THEN /\ lastBadge' = BadgeMessage(show, count)
         /\ badgeSent' = badgeSent + n
    ELSE UNCHANGED badgeVars

\* the part of the engine state a scan writes
SetEngine(eng) ==
  /\ processedElements' = eng.processed
  /\ processedAttr' = eng.pattr
  /\ filteredAttr' = eng.fattr
  /\ blockedCount' = eng.count
  /\ ficCount' = eng.fic

\* the end of a scan: its writes and n badge updates with the new count
Finish(eng, show, n) == SetEngine(eng) /\ updateBadge(show, eng.count, n)

\* filterExistingContent without its badge update
filterExistingContent(att, names, eng) == ScanNode(att, names, eng, Document)

\* resetAndRefilter that forgets to reset the count
resetAndRefilterKeepCount(att, names, eng) ==
  LET allProcessed == SeqToSet(InDocument[att]) \cap eng.pattr
      afterFirst == [eng EXCEPT !.processed = {},
                                !.fattr = @ \ allProcessed,
                                !.pattr = @ \ allProcessed,
                                !.fic = [l \in Links |-> 0]]
      filtered == SeqToSet(InDocument[att]) \cap afterFirst.fattr
      cleared == [afterFirst EXCEPT !.fattr = @ \ filtered,
                                    !.pattr = @ \ filtered]
  IN  filterExistingContent(att, names, cleared)

\* resetAndRefilter without the badge update of filterExistingContent
resetAndRefilter(att, names, eng) ==
  LET allProcessed == SeqToSet(InDocument[att]) \cap eng.pattr
      afterFirst == [eng EXCEPT !.count = 0,
                                !.processed = {},
                                !.fattr = @ \ allProcessed,
                                !.pattr = @ \ allProcessed,
                                !.fic = [l \in Links |-> 0]]
      filtered == SeqToSet(InDocument[att]) \cap afterFirst.fattr
      cleared == [afterFirst EXCEPT !.fattr = @ \ filtered,
                                    !.pattr = @ \ filtered]
  IN  filterExistingContent(att, names, cleared)

(***************************************************************************)
(* Initial state: the engine as constructed, the page in any state         *)
(***************************************************************************)
\* no file has been exported
NoFile == <<>>
NoExport == [usernames |-> <<>>, hideLibrary |-> Undefined, popup |-> "none"]
\* the storage read of initialize() has not been answered
NotServed == [served |-> FALSE, usernames |-> <<>>]

(***************************************************************************)
(* background.js: tabs, runtime messages and the validator                 *)
(***************************************************************************)
MaxBgMsgs == 2
MaxBadgeCount == 1
MaxEdits == 3

Tabs == {1, 2}
\* sender.tab of a message that does not come from a tab
NoTab == 0
\* tabBadgeStates.get(tabId) of a missing key
NoEntry == [type |-> "undefined"]

\* URLs as sequences of their parts
FabUrl == <<"https://", "www.", "fab.com", "/">>
OtherUrl == <<"https://", "example.org", "/">>
Urls == {FabUrl, OtherUrl}
\* tab.url when the extension may not read it
NoUrl == <<>>

\* tab.url?.includes('fab.com')
UrlIncludesFab(url) == url # NoUrl /\ Includes(url, <<"fab.com">>)

\* a runtime message as the background validator reads it
BgMsg(isObject, action, text, color) ==
  [isObject |-> isObject, action |-> action, text |-> text, color |-> color]

\* the message chrome.runtime.sendMessage carries for an updateBadge of the
\* content script
Carried(m) == BgMsg(TRUE, m.action, Str(m.text), [type |-> "string", s |-> m.color])

\* every message updateBadge of the content script can build
ContentBadgeMessages ==
  {Carried(BadgeMessage(show, count)) : show \in BOOLEAN, count \in 0..MaxBadgeCount}

\* updateBadge messages with a missing or falsy colour
ColorlessBadgeMessages ==
  {BgMsg(TRUE, "updateBadge", Str(<<"1">>), color) :
     color \in {[type |-> "undefined"], [type |-> "string", s |-> ""]}}

\* messages the validator throws on
RejectedBadgeMessages ==
  { BgMsg(FALSE, "", [type |-> "undefined"], [type |-> "undefined"]),
    BgMsg(TRUE, "updateFilters", Str(<<"1">>), [type |-> "string", s |-> BlockedColor]),
    BgMsg(TRUE, "updateBadge", Num, [type |-> "string", s |-> BlockedColor]),
    BgMsg(TRUE, "updateBadge", Str(<<"1">>), [type |-> "boolean", b |-> TRUE]) }

\* JavaScript truthiness of a colour value
Truthy(v) ==
  CASE v.type = "string" -> v.s # ""
    [] v.type = "boolean" -> v.b
    [] v.type \in {"undefined", "null"} -> FALSE
    [] OTHER -> TRUE

\* the background validator that lets any colour pass
validateBackgroundAnyColor(message) ==
  IF ~message.isObject
    THEN "Invalid message format"
    ELSE IF message.action # "updateBadge"
      THEN "Invalid action"
      ELSE IF message.text.type # "string"
        THEN "Invalid badge text"
        ELSE "ok"

\* MessageValidator.validate of background.js: "ok" or the message of the
\* error it throws
validateBackground(message) ==
  IF ~message.isObject
    THEN "Invalid message format"
    ELSE IF message.action \notin {"updateBadge"}
      THEN "Invalid action"
      ELSE IF message.text.type # "string"
        THEN "Invalid badge text"
        ELSE IF Truthy(message.color) /\ message.color.type # "string"
          THEN "Invalid badge color"
          ELSE "ok"

\* no popup handler is between its awaits
NoHandler == [op |-> "none"]
Handlers == {1, 2}

NoBadge == [action |-> "none", text |-> <<>>, color |-> ""]

Constructed ==
  /\ attached \in SUBSET Detachable
  /\ filteredAttr = {}
  /\ processedAttr = {}
  /\ processedElements = {}
  /\ filteredUsernames = {}
  /\ showBlockedCount = FALSE
  /\ blockedCount = 0
  /\ pendingMutations = <<>>
  /\ mutationTimeout = 0
  /\ rmTimers = <<>>
  /\ activeTimers = {}
  /\ nextTimerId = 1
  /\ rafQueue = 0
  /\ records = <<>>
  /\ observing = FALSE
  /\ listening = FALSE
  /\ runtimeValid \in BOOLEAN
  /\ pc = "start"
  /\ lastBadge = NoBadge
  /\ badgeSent = 0
  /\ errorLog = 0
  /\ ficCount = [l \in Links |-> 0]
  /\ passCount = 0
  /\ burstCount = 0
  /\ resetCount = 0
  /\ msgCount = 0
  /\ pageOps = 0
  /\ rmObserver = FALSE
  /\ rmListeners = <<>>
  /\ domListeners = {}
  /\ rmStyles = 0
  /\ styleCount = 0
  /\ cleanupCount = 0
  /\ releaseCount = 0
  /\ storedUsernames = <<>>
  /\ storedHideLibrary = Undefined
  /\ outbox = <<>>
  /\ exportFile = NoFile
  /\ exportedFrom = NoExport
  /\ snapshot = NotServed
  /\ sentToTab = <<>>
  /\ tabActive = TRUE
  /\ tabBadgeStates = [t \in Tabs |-> NoEntry]
  /\ badgeText = [t \in Tabs |-> Str(<<>>)]
  /\ badgeColor = [t \in Tabs |-> [type |-> "string", s |-> BlockedColor]]
  /\ inFlight = <<>>
  /\ tabOpen = [t \in Tabs |-> TRUE]
  /\ tabUrl = [t \in Tabs |-> FabUrl]
  /\ tabStatus = [t \in Tabs |-> "complete"]
  /\ bgErrors = 0
  /\ bgSent = 0
  /\ running = [h \in Handlers |-> NoHandler]
  /\ present = {}
  /\ absent = {}
  /\ edits = 0

\* the relay answers
Init == Constructed /\ relay = "up"

(***************************************************************************)
(* The page                                                                *)
(***************************************************************************)
ChildListRecord(added) == [type |-> "childList", addedNodes |-> added]
TextNode == "#text"
NodeType(n) == IF n = TextNode THEN "TEXT_NODE" ELSE "ELEMENT_NODE"

\* the observer queues a record only while it is connected
Observe(record) ==
  records' = IF observing THEN Append(records, record) ELSE records

\* the page inserts the subtree rooted at n under its parent
PageAttach(n) ==
  /\ pageOps < MaxPageOps
  /\ n \notin attached
  /\ attached' = attached \cup {n}
  /\ Observe(ChildListRecord(<<n>>))
  /\ pageOps' = pageOps + 1
  /\ UNCHANGED <<domVars, timerVars, badgeVars, filteredUsernames, showBlockedCount,
                 pendingMutations, rafQueue, observing, listening, runtimeValid,
                 pc, errorLog, passCount, burstCount, resetCount, msgCount>>
  /\ UNCHANGED <<rmVars, lifeVars>>

\* the page removes the subtree rooted at n
PageDetach(n) ==
  /\ pageOps < MaxPageOps
  /\ n \in attached
  /\ attached' = attached \ {n}
  /\ Observe(ChildListRecord(<<>>))
  /\ pageOps' = pageOps + 1
  /\ UNCHANGED <<domVars, timerVars, badgeVars, filteredUsernames, showBlockedCount,
                 pendingMutations, rafQueue, observing, listening, runtimeValid,
                 pc, errorLog, passCount, burstCount, resetCount, msgCount>>
  /\ UNCHANGED <<rmVars, lifeVars>>

\* the page inserts a text node
PageAddText ==
  /\ pageOps < MaxPageOps
  /\ observing
  /\ Observe(ChildListRecord(<<TextNode>>))
  /\ pageOps' = pageOps + 1
  /\ UNCHANGED <<attached, domVars, timerVars, badgeVars, filteredUsernames,
                 showBlockedCount, pendingMutations, rafQueue, observing, listening,
                 runtimeValid, pc, errorLog, passCount, burstCount, resetCount, msgCount>>
  /\ UNCHANGED <<rmVars, lifeVars>>

(***************************************************************************)
(* FabFilter.initialize                                                    *)
(***************************************************************************)
\* initialize() without the check of chrome.runtime.id
InitializeStartUnchecked ==
  /\ pc = "start"
  /\ pc' = "loading"
  /\ UNCHANGED <<attached, domVars, timerVars, badgeVars, filteredUsernames,
                 showBlockedCount, pendingMutations, rafQueue, records, observing,
                 listening, runtimeValid, errorLog, passCount, burstCount,
                 resetCount, msgCount, pageOps>>
  /\ UNCHANGED <<rmVars, lifeVars>>

\* initialize() up to the await of the storage read
InitializeStart ==
  /\ pc = "start"
  /\ pc' = IF runtimeValid THEN "loading" ELSE "skipped"
  /\ UNCHANGED <<attached, domVars, timerVars, badgeVars, filteredUsernames,
                 showBlockedCount, pendingMutations, rafQueue, records, observing,
                 listening, runtimeValid, errorLog, passCount, burstCount,
                 resetCount, msgCount, pageOps>>
  /\ UNCHANGED <<rmVars, lifeVars>>

\* initialize() from the resolution of the storage read to its end
InitializeLoaded(usernames, showCount) ==
  /\ pc = "loading"
  /\ runtimeValid
  /\ records = <<>>
  /\ filteredUsernames' = NewSet(usernames)
  /\ showBlockedCount' = showCount
  /\ Finish(filterExistingContent(attached, NewSet(usernames), Engine), showCount, 2)
  /\ IF BadgeReturns
       THEN /\ observing' = TRUE
            /\ rmObserver' = TRUE
            /\ listening' = TRUE
            /\ pc' = "ready"
       ELSE /\ pc' = "failed"
            /\ UNCHANGED <<observing, rmObserver, listening>>
  /\ UNCHANGED <<attached, timerVars, pendingMutations, rafQueue, records,
                 runtimeValid, errorLog, passCount, burstCount, resetCount,
                 msgCount, pageOps>>
  /\ rmStyles' = rmStyles + 1
  /\ styleCount' = styleCount + 1
  /\ UNCHANGED <<rmListeners, domListeners, lifeVars>>

(***************************************************************************)
(* Mutation watcher                                                        *)
(***************************************************************************)
\* pendingMutations replaced by the nodes of the latest record
AddAllLatestOnly(set, nodes) == IF nodes = <<>> THEN set ELSE nodes

RECURSIVE AddAll(_, _)
\* Set.prototype.add of each element of nodes, keeping insertion order
AddAll(set, nodes) ==
  IF nodes = <<>>
    THEN set
    ELSE AddAll(IF Head(nodes) \in SeqToSet(set) THEN set ELSE Append(set, Head(nodes)),
                Tail(nodes))

RECURSIVE Batch(_, _)
\* the loop of the observer callback over the mutation records
Batch(pending, mutations) ==
  IF mutations = <<>>
    THEN pending
    ELSE LET mutation == Head(mutations)
             elements == SelectSeq(mutation.addedNodes,
                                   LAMBDA n : NodeType(n) = "ELEMENT_NODE")
         IN  Batch(IF mutation.type # "childList" THEN pending
                   ELSE AddAll(pending, elements),
                   Tail(mutations))

\* clearTimeout that cancels nothing
ClearTimeoutNothing(active, id) == active

\* clearTimeout(id)
ClearTimeout(active, id) == active \ {id}

\* the MutationObserver callback
ObserverCallback ==
  /\ observing
  /\ records # <<>>
  /\ records' = <<>>
  /\ pendingMutations' = Batch(pendingMutations, records)
  /\ IF Len(pendingMutations') > 0
       THEN /\ activeTimers' =
                 (IF mutationTimeout # 0
                    THEN ClearTimeout(activeTimers, mutationTimeout)
                    ELSE activeTimers) \cup {nextTimerId}
            /\ mutationTimeout' = nextTimerId
            /\ rmTimers' = Append(rmTimers, nextTimerId)
            /\ nextTimerId' = nextTimerId + 1
            /\ burstCount' = IF mutationTimeout \in activeTimers
                               THEN burstCount ELSE burstCount + 1
       ELSE UNCHANGED <<timerVars, burstCount>>
  /\ UNCHANGED <<attached, domVars, badgeVars, filteredUsernames, showBlockedCount,
                 rafQueue, observing, listening, runtimeValid, pc, errorLog,
                 passCount, resetCount, msgCount, pageOps>>
  /\ UNCHANGED <<rmVars, lifeVars>>

\* processPendingMutations that requests no animation frame
DebounceFireNoFrame(t) ==
  /\ t \in activeTimers
  /\ records = <<>>
  /\ activeTimers' = activeTimers \ {t}
  /\ UNCHANGED <<attached, domVars, badgeVars, filteredUsernames, showBlockedCount,
                 pendingMutations, mutationTimeout, rmTimers, nextTimerId, records,
                 observing, listening, runtimeValid, pc, errorLog, passCount,
                 burstCount, resetCount, msgCount, pageOps, rafQueue>>
  /\ UNCHANGED <<rmVars, lifeVars>>

\* the debounce timer t expires: processPendingMutations up to requestAnimationFrame
DebounceFire(t) ==
  /\ t \in activeTimers
  /\ records = <<>>
  /\ activeTimers' = activeTimers \ {t}
  /\ IF Len(pendingMutations) = 0
       THEN UNCHANGED rafQueue
       ELSE rafQueue' = rafQueue + 1
  /\ UNCHANGED <<attached, domVars, badgeVars, filteredUsernames, showBlockedCount,
                 pendingMutations, mutationTimeout, rmTimers, nextTimerId, records,
                 observing, listening, runtimeValid, pc, errorLog, passCount,
                 burstCount, resetCount, msgCount, pageOps>>
  /\ UNCHANGED <<rmVars, lifeVars>>

RECURSIVE ProcessNodesScanDetached(_, _, _, _)
\* the pass without the document.contains test
ProcessNodesScanDetached(att, names, eng, nodes) ==
  IF nodes = <<>>
    THEN eng
    ELSE ProcessNodesScanDetached(att, names,
                                  ScanNode(att, names, eng, Head(nodes)),
                                  Tail(nodes))

RECURSIVE ProcessNodes(_, _, _, _)
\* nodesToProcess.forEach(...) of the animation-frame callback
ProcessNodes(att, names, eng, nodes) ==
  IF nodes = <<>>
    THEN eng
    ELSE ProcessNodes(att, names,
                      IF Head(nodes) \notin SeqToSet(InDocument[att])
                        THEN eng
                        ELSE ScanNode(att, names, eng, Head(nodes)),
                      Tail(nodes))

\* the animation-frame callback of processPendingMutations
AnimationFrame ==
  /\ rafQueue > 0
  /\ records = <<>>
  /\ rafQueue' = rafQueue - 1
  /\ pendingMutations' = <<>>
  /\ Finish(ProcessNodes(attached, filteredUsernames, Engine, pendingMutations),
            showBlockedCount, 1)
  /\ passCount' = passCount + 1
  /\ UNCHANGED <<attached, timerVars, filteredUsernames, showBlockedCount, records,
                 observing, listening, runtimeValid, pc, errorLog, burstCount,
                 resetCount, msgCount, pageOps>>
  /\ UNCHANGED <<rmVars, lifeVars>>

(***************************************************************************)
(* FabFilter.handleMessage                                                 *)
(***************************************************************************)
handleMessage(message) ==
  /\ listening
  /\ runtimeValid
  /\ records = <<>>
  /\ msgCount < MaxMsgs
  /\ msgCount' = msgCount + 1
  /\ IF validate(message) # "ok"
       THEN /\ errorLog' = errorLog + 1
            /\ UNCHANGED <<domVars, badgeVars, filteredUsernames, showBlockedCount,
                           resetCount>>
       ELSE IF message.action = "updateFilters"
         THEN /\ resetCount' = resetCount + 1
              /\ filteredUsernames' = NewSet(message.usernames.items)
              /\ Finish(resetAndRefilter(attached, NewSet(message.usernames.items),
                                         Engine),
                        showBlockedCount, 1)
              /\ errorLog' = IF BadgeReturns THEN errorLog ELSE errorLog + 1
              /\ UNCHANGED showBlockedCount
         ELSE /\ showBlockedCount' = message.showCount.b
              /\ updateBadge(message.showCount.b, blockedCount, 1)
              /\ errorLog' = IF BadgeReturns THEN errorLog ELSE errorLog + 1
              /\ UNCHANGED <<domVars, filteredUsernames, resetCount>>
  /\ UNCHANGED <<attached, timerVars, pendingMutations, rafQueue, records, observing,
                 listening, runtimeValid, pc, passCount, burstCount, pageOps>>
  /\ UNCHANGED <<rmVars, lifeVars>>

(***************************************************************************)
(* ContentResourceManager                                                  *)
(***************************************************************************)
\* cleanup() that keeps its records
RmCleanupKeepRecords ==
  /\ observing' = IF rmObserver THEN FALSE ELSE observing
  /\ records' = IF rmObserver THEN <<>> ELSE records
  /\ domListeners' = domListeners \ SeqToSet(rmListeners)
  /\ activeTimers' = activeTimers \ SeqToSet(rmTimers)
  /\ styleCount' = styleCount - rmStyles
  /\ UNCHANGED <<rmObserver, rmListeners, rmTimers, rmStyles>>
  /\ cleanupCount' = cleanupCount + 1
  /\ releaseCount' = (IF rmObserver THEN 1 ELSE 0) + Len(rmListeners)
                       + Len(rmTimers) + rmStyles

\* cleanup(): disconnect() drops the records the observer has queued
RmCleanup ==
  /\ observing' = IF rmObserver THEN FALSE ELSE observing
  /\ records' = IF rmObserver THEN <<>> ELSE records
  /\ domListeners' = domListeners \ SeqToSet(rmListeners)
  /\ activeTimers' = activeTimers \ SeqToSet(rmTimers)
  /\ styleCount' = styleCount - rmStyles
  /\ rmObserver' = FALSE
  /\ rmListeners' = <<>>
  /\ rmTimers' = <<>>
  /\ rmStyles' = 0
  /\ cleanupCount' = cleanupCount + 1
  /\ releaseCount' = (IF rmObserver THEN 1 ELSE 0) + Len(rmListeners)
                       + Len(rmTimers) + rmStyles

\* what the manager and the browser registries do not hold
engineVars ==
  <<attached, domVars, badgeVars, filteredUsernames, showBlockedCount,
    pendingMutations, mutationTimeout, nextTimerId, rafQueue, listening,
    runtimeValid, pc, errorLog, passCount, burstCount, resetCount, msgCount,
    pageOps, outsideVars>>

\* FabFilter.cleanup(), called by the unload / suspend listener of initialize
Cleanup ==
  /\ pc = "ready"
  /\ records = <<>>
  /\ cleanupCount < MaxCleanups
  /\ RmCleanup
  /\ UNCHANGED engineVars

\* the events a client listens to
ListenerKeys == {"click", "keypress"}

\* a client calls setObserver with an observer it has connected
RmSetObserver ==
  /\ rmObserver' = TRUE
  /\ observing' = TRUE
  /\ UNCHANGED <<engineVars, records, rmListeners, domListeners, rmTimers,
                 activeTimers, rmStyles, styleCount, cleanupCount, releaseCount>>

\* a client calls addEventListener
RmAddEventListener(key) ==
  /\ Len(rmListeners) < MaxRecords
  /\ domListeners' = domListeners \cup {key}
  /\ rmListeners' = Append(rmListeners, key)
  /\ UNCHANGED <<engineVars, records, observing, rmObserver, rmTimers, activeTimers,
                 rmStyles, styleCount, cleanupCount, releaseCount>>

\* a client calls setTimeout through the manager; the id is not in engineVars
\* here because the manager's client owns the timer
RmSetTimeout ==
  /\ Len(rmTimers) < MaxRecords
  /\ \E id \in 1..MaxRecords :
       /\ id \notin SeqToSet(rmTimers)
       /\ activeTimers' = activeTimers \cup {id}
       /\ rmTimers' = Append(rmTimers, id)
  /\ UNCHANGED <<engineVars, records, observing, rmObserver, rmListeners,
                 domListeners, rmStyles, styleCount, cleanupCount, releaseCount>>

\* a timer of the client expires
RmTimerFires(t) ==
  /\ t \in activeTimers
  /\ activeTimers' = activeTimers \ {t}
  /\ UNCHANGED <<engineVars, records, observing, rmVars, rmTimers, cleanupCount,
                 releaseCount>>

\* a client calls addStyle with a style element it has attached
RmAddStyle ==
  /\ rmStyles < MaxRecords
  /\ rmStyles' = rmStyles + 1
  /\ styleCount' = styleCount + 1
  /\ UNCHANGED <<engineVars, records, observing, rmObserver, rmListeners,
                 domListeners, rmTimers, activeTimers, cleanupCount, releaseCount>>

\* a client calls cleanup()
RmCleanupCall ==
  /\ cleanupCount < MaxCleanups
  /\ RmCleanup
  /\ UNCHANGED engineVars

(***************************************************************************)
(* Failures                                                                *)
(***************************************************************************)
\* the steps of initialize() that can throw
FailSteps == {"storage", "styles", "scan", "observer", "listener"}

\* the engine state when findElementsInNode throws after its last link
MarkOnly(eng, found) ==
  [eng EXCEPT !.processed = found.processed, !.pattr = found.pattr,
              !.fic = found.fic]

\* initialize() when the given step throws: the catch block logs the error
InitializeFails(usernames, showCount, step) ==
  /\ pc = "loading"
  /\ step = "storage" \/ runtimeValid
  /\ pc' = "failed"
  /\ IF step = "storage"
       THEN UNCHANGED <<filteredUsernames, showBlockedCount>>
       ELSE /\ filteredUsernames' = NewSet(usernames)
            /\ showBlockedCount' = showCount
  /\ IF step \in {"storage", "styles"}
       THEN UNCHANGED <<rmStyles, styleCount>>
       ELSE /\ rmStyles' = rmStyles + 1
            /\ styleCount' = styleCount + 1
  /\ CASE step \in {"storage", "styles"} -> UNCHANGED <<domVars, badgeVars>>
       [] step = "scan" ->
            /\ SetEngine(MarkOnly(Engine,
                  findElementsInNode(attached, Document,
                    [elements |-> <<>>, processed |-> processedElements,
                     pattr |-> processedAttr, fic |-> ficCount])))
            /\ UNCHANGED badgeVars
       [] OTHER ->
            Finish(filterExistingContent(attached, NewSet(usernames), Engine),
                   showCount, 1)
  /\ IF step = "listener"
       THEN observing' = TRUE /\ rmObserver' = TRUE
       ELSE UNCHANGED <<observing, rmObserver>>
  /\ UNCHANGED <<attached, timerVars, pendingMutations, rafQueue, records,
                 listening, runtimeValid, errorLog, passCount, burstCount,
                 resetCount, msgCount, pageOps, rmListeners, domListeners, lifeVars>>

\* the extension is reloaded or removed: the script loses its runtime
RuntimeInvalidated ==
  /\ runtimeValid
  /\ runtimeValid' = FALSE
  /\ UNCHANGED <<attached, domVars, timerVars, badgeVars, filteredUsernames,
                 showBlockedCount, pendingMutations, rafQueue, records, observing,
                 listening, pc, errorLog, passCount, burstCount, resetCount,
                 msgCount, pageOps, rmVars, lifeVars>>

(***************************************************************************)
(* Popup                                                                   *)
(***************************************************************************)
\* the content script's variables
scriptVars ==
  <<attached, domVars, timerVars, badgeVars, filteredUsernames, showBlockedCount,
    pendingMutations, rafQueue, records, observing, listening, runtimeValid, pc,
    errorLog, passCount, burstCount, resetCount, msgCount, pageOps, rmVars,
    cleanupCount, releaseCount>>

UpdateHideLibraryMsg == Msg(TRUE, "updateHideLibrary", FALSE, <<>>, "undefined", FALSE)

\* no popup handler is running
PopupIdle == outbox = <<>> /\ Len(sentToTab) < MaxMsgs

\* a value longer than maxLength
LongInput == [i \in 1..(maxLength + 1) |-> "b"]

\* values of usernameInput
PopupInputs == {<<"b">>, <<Sp, "c", Sp>>, <<>>, <<"b", "!">>, LongInput}

\* usernames.splice(usernames.indexOf(username), 1)
Splice(usernames, username) ==
  LET index == CHOOSE i \in 1..Len(usernames) :
                 usernames[i] = username /\ \A j \in 1..(i - 1) : usernames[j] # username
  IN  SubSeq(usernames, 1, index - 1) \o SubSeq(usernames, index + 1, Len(usernames))

\* addUsername up to its call of notifyContentScript
addUsername(input) ==
  /\ PopupIdle
  /\ IF ~sanitizeUsername(Str(input)).ok
          \/ sanitizeUsername(Str(input)).value \in SeqToSet(storedUsernames)
       THEN UNCHANGED <<storedUsernames, outbox>>
       ELSE /\ storedUsernames' =
                 Append(storedUsernames, sanitizeUsername(Str(input)).value)
            /\ outbox' = <<UpdateFiltersMsg(storedUsernames')>>
  /\ UNCHANGED <<scriptVars, envVars, storedHideLibrary, exportFile, exportedFrom, tabVars>>

\* removeUsername up to its call of notifyContentScript
removeUsername(username) ==
  /\ PopupIdle
  /\ IF username \notin SeqToSet(storedUsernames)
       THEN UNCHANGED <<storedUsernames, outbox>>
       ELSE /\ storedUsernames' = Splice(storedUsernames, username)
            /\ outbox' = <<UpdateFiltersMsg(storedUsernames')>>
  /\ UNCHANGED <<scriptVars, envVars, storedHideLibrary, exportFile, exportedFrom, tabVars>>

\* clearAll, confirmed, up to its call of notifyContentScript
clearAll ==
  /\ PopupIdle
  /\ storedUsernames' = <<>>
  /\ outbox' = <<UpdateFiltersMsg(<<>>)>>
  /\ UNCHANGED <<scriptVars, envVars, storedHideLibrary, exportFile, exportedFrom, tabVars>>

\* saveHideLibrarySetting up to its call of notifyContentScript
saveHideLibrarySetting(checked) ==
  /\ PopupIdle
  /\ storedHideLibrary' = Bool(checked)
  /\ outbox' = <<UpdateHideLibraryMsg>>
  /\ UNCHANGED <<scriptVars, envVars, storedUsernames, exportFile, exportedFrom, tabVars>>

\* the exportData of the newer popup
ExportData(usernames, hideLibrary) ==
  Obj(<< <<UsernamesKey, Arr(usernames)>>,
         <<SettingsKey, Obj(<< <<HideLibraryKey, Bool(OrFalse(hideLibrary))>> >>)>> >>)

\* exportList of the newer popup
exportList ==
  /\ PopupIdle
  /\ exportFile' = Stringify(ExportData(storedUsernames, storedHideLibrary), 0)
  /\ exportedFrom' = [usernames |-> storedUsernames, hideLibrary |-> storedHideLibrary,
                      popup |-> "newer"]
  /\ UNCHANGED <<scriptVars, envVars, storedUsernames, storedHideLibrary, outbox, tabVars>>

\* exportList of the older popup
exportListOlder ==
  /\ PopupIdle
  /\ exportFile' = Stringify(Obj(<< <<UsernamesKey, Arr(storedUsernames)>> >>), 0)
  /\ exportedFrom' = [usernames |-> storedUsernames, hideLibrary |-> storedHideLibrary,
                      popup |-> "older"]
  /\ UNCHANGED <<scriptVars, envVars, storedUsernames, storedHideLibrary, outbox, tabVars>>

RECURSIVE SanitizeValid(_, _)
\* the loop of importList: strings that sanitize are kept, the rest skipped
SanitizeValid(usernames, acc) ==
  IF usernames = <<>>
    THEN acc
    ELSE SanitizeValid(Tail(usernames),
                       IF sanitizeUsername(Head(usernames)).ok
                         THEN Append(acc, sanitizeUsername(Head(usernames)).value)
                         ELSE acc)

\* the usernames and the hideLibrary setting importList of the newer popup reads
\* from a parsed file; hideLibrary is Null when the file has none
Imported(parsedData) ==
  IF Get(parsedData, UsernamesKey).type = "array"
    THEN [ok |-> TRUE,
          usernames |-> Get(parsedData, UsernamesKey).items,
          hideLibrary |->
            IF Get(Get(parsedData, SettingsKey), HideLibraryKey).type = "boolean"
              THEN Get(Get(parsedData, SettingsKey), HideLibraryKey)
              ELSE Null]
    ELSE IF parsedData.type = "array"
      THEN [ok |-> TRUE, usernames |-> parsedData.items, hideLibrary |-> Null]
      ELSE [ok |-> FALSE, usernames |-> <<>>, hideLibrary |-> Null]

\* the writes of an import that merges the file into the stored list
ImportWritesMerging(uniqueUsernames, hideLibrary) ==
  /\ storedUsernames' = Unique(storedUsernames \o uniqueUsernames, <<>>)
  /\ storedHideLibrary' = IF hideLibrary # Null THEN hideLibrary ELSE storedHideLibrary
  /\ outbox' = <<UpdateFiltersMsg(storedUsernames')>>
                 \o (IF hideLibrary # Null THEN <<UpdateHideLibraryMsg>> ELSE <<>>)

\* the writes and notifications of importList after a file was read
ImportWrites(uniqueUsernames, hideLibrary) ==
  /\ storedUsernames' = uniqueUsernames
  /\ storedHideLibrary' = IF hideLibrary # Null THEN hideLibrary ELSE storedHideLibrary
  /\ outbox' = <<UpdateFiltersMsg(uniqueUsernames)>>
                 \o (IF hideLibrary # Null THEN <<UpdateHideLibraryMsg>> ELSE <<>>)

\* importList after JSON.parse returned or threw
ImportParsed(parsed) ==
  IF ~parsed.ok \/ ~Imported(parsed.value).ok
    THEN UNCHANGED <<storedUsernames, storedHideLibrary, outbox>>
    ELSE ImportWrites(Unique(SanitizeValid(Imported(parsed.value).usernames, <<>>), <<>>),
                      Imported(parsed.value).hideLibrary)

\* importList of the newer popup up to its calls of notifyContentScript
importList(text) ==
  /\ PopupIdle
  /\ ImportParsed(JSONParse(text))
  /\ UNCHANGED <<scriptVars, envVars, exportFile, exportedFrom, tabVars>>

RECURSIVE Strings(_)
\* parsed.usernames.filter(u => typeof u === 'string')
Strings(items) ==
  IF items = <<>>
    THEN <<>>
    ELSE (IF Head(items).type = "string" THEN <<Head(items)>> ELSE <<>>)
           \o Strings(Tail(items))

\* sanitizeJSON after JSON.parse returned or threw
SanitizeParsed(parsed) ==
  IF ~parsed.ok
       \/ parsed.value.type \notin {"object", "array"}
       \/ Get(parsed.value, UsernamesKey).type # "array"
       \/ \E u \in SeqToSet(Strings(Get(parsed.value, UsernamesKey).items)) :
            ~sanitizeUsername(u).ok
    THEN Thrown
    ELSE Returned(SanitizeValid(Strings(Get(parsed.value, UsernamesKey).items), <<>>))

\* InputValidator.sanitizeJSON of the older popup
sanitizeJSON(jsonString) == SanitizeParsed(JSONParse(jsonString))

\* importList of the older popup after sanitizeJSON returned or threw
ImportSanitized(data) ==
  IF ~data.ok
    THEN UNCHANGED <<storedUsernames, outbox>>
    ELSE /\ storedUsernames' = Unique(data.value, <<>>)
         /\ outbox' = <<UpdateFiltersMsg(storedUsernames')>>

\* importList of the older popup up to its call of notifyContentScript
importListOlder(text) ==
  /\ PopupIdle
  /\ ImportSanitized(sanitizeJSON(text))
  /\ UNCHANGED <<scriptVars, envVars, storedHideLibrary, exportFile, exportedFrom, tabVars>>

\* files that no export of this popup wrote
ForeignFiles ==
  { <<"[", Quote, "b", Quote, ",", Quote, "b", Quote, ",", Quote, Sp, "c", Quote, ",",
      "7", "]">>,
    Stringify(Obj(<< <<UsernamesKey, Arr(<<Str(<<"c">>), Str(<<"b", "!">>)>>)>> >>), 0),
    Stringify(Obj(<<>>), 0),
    <<"{">> }

\* the files the user can pick
ImportFiles == ForeignFiles \cup (IF exportFile = NoFile THEN {} ELSE {exportFile})

\* notifyContentScript: chrome.tabs.sendMessage reaches the active tab, and a
\* tab without a listener rejects with "Could not establish connection"
notifyContentScript ==
  /\ outbox # <<>>
  /\ outbox' = Tail(outbox)
  /\ sentToTab' = IF tabActive /\ listening
                    THEN Append(sentToTab, Head(outbox))
                    ELSE sentToTab
  /\ UNCHANGED <<scriptVars, envVars, storedUsernames, storedHideLibrary, exportFile,
                 exportedFrom, snapshot, tabActive>>

\* the user brings this tab to the front or another one
ActivateTab ==
  /\ outbox = <<>>
  /\ tabActive' = ~tabActive
  /\ UNCHANGED <<scriptVars, envVars, popupVars, snapshot, sentToTab>>

\* chrome.storage.sync answers the read of initialize()
StorageGetServed ==
  /\ pc = "loading"
  /\ ~snapshot.served
  /\ snapshot' = [served |-> TRUE, usernames |-> storedUsernames]
  /\ UNCHANGED <<scriptVars, envVars, popupVars, sentToTab, tabActive>>

\* the answer reaches initialize()
InitializeFromStore ==
  /\ snapshot.served
  /\ \E showCount \in BOOLEAN : InitializeLoaded(snapshot.usernames, showCount)

\* the listener of this tab receives the next message sent to it
DeliverToTab ==
  /\ msgCount < Len(sentToTab)
  /\ handleMessage(sentToTab[msgCount + 1])

(***************************************************************************)
(* Popup handlers step by step: at each await another handler can run      *)
(***************************************************************************)
notEditVars == <<scriptVars, relay, bgVars, exportFile, exportedFrom, tabVars>>

\* a handler between two awaits: at "get" it waits for storage.sync.get, at
\* "got" the read is answered, at "file" it waits for file.text(), at "set"
\* its storage.sync.set is issued; clean says that no operation that undoes
\* it has been in progress at the same time
Handler(op, name, at, list, setting) ==
  [op |-> op, name |-> name, at |-> at, list |-> list, setting |-> setting,
   clean |-> TRUE]

\* the names the rendered list offers a remove button for
PopupNames == {Str(<<"b">>), Str(<<"c">>)}

\* the other handlers in progress
Others(h) == {running[g] : g \in Handlers \ {h}} \ {NoHandler}

\* an operation after which u need not be in the list
TakesAway(r, u) == r.op \in {"clear", "import"} \/ (r.op = "remove" /\ r.name = u)
\* an operation after which u may be in the list
BringsBack(r, u) == r.op = "import" \/ (r.op = "add" /\ r.name = u)

\* the operation q undoes what r reports
Undoes(q, r) ==
  \/ r.op = "add" /\ TakesAway(q, r.name)
  \/ r.op = "remove" /\ BringsBack(q, r.name)

\* a handler starts
Begin(h) ==
  /\ running[h] = NoHandler
  /\ edits < MaxEdits
  /\ edits' = edits + 1

\* handler h is now at r
Started(h, r) ==
  running' =
    [g \in Handlers |->
       IF g = h
         THEN [r EXCEPT !.clean = ~\E q \in Others(h) : Undoes(q, r)]
         ELSE IF running[g] # NoHandler /\ Undoes(r, running[g])
           THEN [running[g] EXCEPT !.clean = FALSE]
           ELSE running[g]]

\* addUsername up to its await of storage.sync.get
StartAdd(h, input) ==
  /\ Begin(h)
  /\ IF ~sanitizeUsername(Str(input)).ok
       THEN UNCHANGED <<running, absent>>
       ELSE /\ Started(h, Handler("add", sanitizeUsername(Str(input)).value, "get",
                                  <<>>, Null))
            /\ absent' = absent \ {sanitizeUsername(Str(input)).value}
  /\ UNCHANGED <<present, storedUsernames, storedHideLibrary, outbox, notEditVars>>

\* removeUsername up to its await of storage.sync.get
StartRemove(h, username) ==
  /\ Begin(h)
  /\ Started(h, Handler("remove", username, "get", <<>>, Null))
  /\ present' = present \ {username}
  /\ UNCHANGED <<absent, storedUsernames, storedHideLibrary, outbox, notEditVars>>

\* clearAll up to its await of storage.sync.set
StartClear(h) ==
  /\ Begin(h)
  /\ storedUsernames' = <<>>
  /\ Started(h, Handler("clear", Undefined, "set", <<>>, Null))
  /\ present' = {}
  /\ UNCHANGED <<absent, storedHideLibrary, outbox, notEditVars>>

\* what importList of the newer popup makes of a parsed file
ImportOutcome(parsed) ==
  IF ~parsed.ok \/ ~Imported(parsed.value).ok
    THEN Handler("import", Undefined, "fails", <<>>, Null)
    ELSE Handler("import", Undefined, "file",
                 Unique(SanitizeValid(Imported(parsed.value).usernames, <<>>), <<>>),
                 Imported(parsed.value).hideLibrary)

\* importList up to its await of file.text()
StartImport(h, text) ==
  /\ Begin(h)
  /\ Started(h, ImportOutcome(JSONParse(text)))
  /\ present' = {}
  /\ absent' = {}
  /\ UNCHANGED <<storedUsernames, storedHideLibrary, outbox, notEditVars>>

\* importList from the answer of file.text() to its awaits of storage.sync.set
FileRead(h) ==
  /\ running[h] # NoHandler
  /\ running[h].at \in {"file", "fails"}
  /\ IF running[h].at = "fails"
       THEN /\ running' = [running EXCEPT ![h] = NoHandler]
            /\ UNCHANGED <<storedUsernames, storedHideLibrary>>
       ELSE /\ running' = [running EXCEPT ![h].at = "set"]
            /\ storedUsernames' = running[h].list
            /\ storedHideLibrary' = IF running[h].setting # Null
                                      THEN running[h].setting
                                      ELSE storedHideLibrary
  /\ UNCHANGED <<present, absent, edits, outbox, notEditVars>>

\* chrome.storage.sync answers the read of a handler
GetServed(h) ==
  /\ running[h] # NoHandler
  /\ running[h].at = "get"
  /\ running' = [running EXCEPT ![h].at = "got", ![h].list = storedUsernames]
  /\ UNCHANGED <<present, absent, edits, storedUsernames, storedHideLibrary, outbox,
                 notEditVars>>

\* addUsername and removeUsername from the answer of the read to the await
\* of storage.sync.set
Resume(h) ==
  /\ running[h] # NoHandler
  /\ running[h].at = "got"
  /\ IF running[h].op = "add"
       THEN IF running[h].name \in SeqToSet(running[h].list)
              THEN /\ running' = [running EXCEPT ![h] = NoHandler]
                   /\ UNCHANGED storedUsernames
              ELSE /\ storedUsernames' = Append(running[h].list, running[h].name)
                   /\ running' = [running EXCEPT ![h].at = "set",
                                                 ![h].list = storedUsernames']
       ELSE IF running[h].name \notin SeqToSet(running[h].list)
              THEN /\ running' = [running EXCEPT ![h] = NoHandler]
                   /\ UNCHANGED storedUsernames
              ELSE /\ storedUsernames' = Splice(running[h].list, running[h].name)
                   /\ running' = [running EXCEPT ![h].at = "set",
                                                 ![h].list = storedUsernames']
  /\ UNCHANGED <<present, absent, edits, storedHideLibrary, outbox, notEditVars>>

\* the messages a handler passes to notifyContentScript after its writes
Notifications(r) ==
  <<UpdateFiltersMsg(r.list)>>
    \o (IF r.setting # Null THEN <<UpdateHideLibraryMsg>> ELSE <<>>)

\* storage.sync.set has resolved: the handler reports success and goes on
\* to notifyContentScript
SetResolved(h) ==
  /\ running[h] # NoHandler
  /\ running[h].at = "set"
  /\ running' = [running EXCEPT ![h] = NoHandler]
  /\ outbox' = outbox \o Notifications(running[h])
  /\ present' = IF running[h].op = "add" /\ running[h].clean
                  THEN present \cup {running[h].name}
                  ELSE present
  /\ absent' = IF running[h].op = "remove" /\ running[h].clean
                 THEN absent \cup {running[h].name}
                 ELSE absent
  /\ UNCHANGED <<edits, storedUsernames, storedHideLibrary, notEditVars>>

(***************************************************************************)
(* background.js: listeners                                                *)
(***************************************************************************)
notBgVars == <<scriptVars, relay, editVars, popupVars, tabVars>>

\* updateBadgeForTab that sets the badge of every tab
updateBadgeForAllTabs(tabId, text, color) ==
  /\ tabBadgeStates' = [t \in Tabs |-> [text |-> text, color |-> color]]
  /\ badgeText' = [t \in Tabs |-> text]
  /\ badgeColor' = IF Truthy(color) THEN [t \in Tabs |-> color] ELSE badgeColor

updateBadgeForTab(tabId, text, color) ==
  /\ tabBadgeStates' = [tabBadgeStates EXCEPT ![tabId] = [text |-> text, color |-> color]]
  /\ badgeText' = [badgeText EXCEPT ![tabId] = text]
  /\ badgeColor' = IF Truthy(color)
                     THEN [badgeColor EXCEPT ![tabId] = color]
                     ELSE badgeColor

\* the chrome.runtime.onMessage listener
onMessage(message, sender) ==
  IF validateBackground(message) # "ok"
    THEN /\ bgErrors' = bgErrors + 1
         /\ UNCHANGED <<tabBadgeStates, badgeText, badgeColor>>
    ELSE /\ bgErrors' = bgErrors
         /\ IF message.action = "updateBadge" /\ sender # NoTab
              THEN updateBadgeForTab(sender, message.text, message.color)
              ELSE UNCHANGED <<tabBadgeStates, badgeText, badgeColor>>

\* the sequence without its i-th element
Without(seq, i) == SubSeq(seq, 1, i - 1) \o SubSeq(seq, i + 1, Len(seq))

\* the listener receives a message in flight; messages of one sender arrive
\* in the order they were sent
BgReceive(i) ==
  /\ i \in 1..Len(inFlight)
  /\ \A j \in 1..(i - 1) : inFlight[j].sender # inFlight[i].sender
  /\ inFlight' = Without(inFlight, i)
  /\ onMessage(inFlight[i].message, inFlight[i].sender)
  /\ UNCHANGED <<tabOpen, tabUrl, tabStatus, bgSent, notBgVars>>

\* chrome.runtime.sendMessage
RuntimeSend(sender, message) ==
  /\ bgSent < MaxBgMsgs
  /\ bgSent' = bgSent + 1
  /\ inFlight' = Append(inFlight, [sender |-> sender, message |-> message])
  /\ UNCHANGED <<tabBadgeStates, badgeText, badgeColor, tabOpen, tabUrl, tabStatus,
                 bgErrors, notBgVars>>

\* the content script of a fab.com page in tab t sends an updateBadge message
ContentSends(t, message) ==
  /\ tabOpen[t]
  /\ tabUrl[t] = FabUrl
  /\ RuntimeSend(t, message)

\* another sender (an extension page, or a script of the extension in a
\* fab.com tab) sends a message
OtherSends(sender, message) ==
  /\ sender \in Tabs => tabOpen[sender] /\ tabUrl[sender] = FabUrl
  /\ RuntimeSend(sender, message)

\* the chrome.tabs.onUpdated listener
onUpdated(tabId, status, url) ==
  IF status = "loading" /\ ~UrlIncludesFab(url)
    THEN /\ badgeText' = [badgeText EXCEPT ![tabId] = Str(<<>>)]
         /\ tabBadgeStates' = [tabBadgeStates EXCEPT ![tabId] = NoEntry]
         /\ UNCHANGED badgeColor
    ELSE UNCHANGED <<tabBadgeStates, badgeText, badgeColor>>

\* the chrome.tabs.onRemoved listener
onRemoved(tabId) ==
  /\ tabBadgeStates' = [tabBadgeStates EXCEPT ![tabId] = NoEntry]
  /\ UNCHANGED <<badgeText, badgeColor>>

\* tab.url as the listener sees it: the URL, or undefined where the
\* extension may not read it
SeenUrls(url) == IF url = FabUrl THEN {url} ELSE {url, NoUrl}

\* tab t starts loading url
TabNavigates(t, url, seen) ==
  /\ tabOpen[t]
  /\ seen \in SeenUrls(url)
  /\ tabUrl' = [tabUrl EXCEPT ![t] = url]
  /\ tabStatus' = [tabStatus EXCEPT ![t] = "loading"]
  /\ onUpdated(t, "loading", seen)
  /\ UNCHANGED <<inFlight, tabOpen, bgErrors, bgSent, notBgVars>>

\* tab t has finished loading
TabLoaded(t) ==
  /\ tabOpen[t]
  /\ tabStatus[t] = "loading"
  /\ tabStatus' = [tabStatus EXCEPT ![t] = "complete"]
  /\ onUpdated(t, "complete", tabUrl[t])
  /\ UNCHANGED <<inFlight, tabOpen, tabUrl, bgErrors, bgSent, notBgVars>>

\* tab t is closed
TabCloses(t) ==
  /\ tabOpen[t]
  /\ tabOpen' = [tabOpen EXCEPT ![t] = FALSE]
  /\ onRemoved(t)
  /\ UNCHANGED <<inFlight, tabUrl, tabStatus, bgErrors, bgSent, notBgVars>>

(***************************************************************************)
(* Specification                                                           *)
(***************************************************************************)
Next ==
  \/ \E n \in Detachable : PageAttach(n)
  \/ \E n \in Detachable : PageDetach(n)
  \/ PageAddText
  \/ InitializeStart
  \/ \E usernames \in UsernameLists, showCount \in BOOLEAN :
       InitializeLoaded(usernames, showCount)
  \/ ObserverCallback
  \/ \E t \in activeTimers : DebounceFire(t)
  \/ AnimationFrame
  \/ \E message \in Messages : handleMessage(message)

Spec == Init /\ [][Next]_vars

\* ENABLED <<AnimationFrame>>_vars: a frame is requested and no record waits
\* (the step lowers rafQueue, so it always changes vars)
AnimationFrameEnabled ==
  /\ rafQueue > 0
  /\ records = <<>>

\* WF_vars(AnimationFrame), with ENABLED written out
AnimationFrameFair ==
  \/ []<>(~AnimationFrameEnabled)
  \/ []<><<AnimationFrame>>_vars

\* the browser runs every observer callback, expired timer and animation frame
LiveSpec ==
  /\ Spec
  /\ WF_vars(ObserverCallback)
  /\ WF_vars(\E t \in activeTimers : DebounceFire(t))
  /\ AnimationFrameFair

\* the popup: edits, export, import and the hide-library toggle
NextPopup ==
  \/ \E input \in PopupInputs : addUsername(input)
  \/ \E username \in SeqToSet(storedUsernames) : removeUsername(username)
  \/ clearAll
  \/ \E checked \in BOOLEAN : saveHideLibrarySetting(checked)
  \/ exportList
  \/ exportListOlder
  \/ \E text \in ImportFiles : importList(text)
  \/ \E text \in ImportFiles : importListOlder(text)
  \/ notifyContentScript

SpecPopup == Init /\ [][NextPopup]_vars

\* popup edits against the content script of one fab.com tab
NextSync ==
  \/ \E input \in PopupInputs : addUsername(input)
  \/ \E username \in SeqToSet(storedUsernames) : removeUsername(username)
  \/ clearAll
  \/ notifyContentScript
  \/ ActivateTab
  \/ InitializeStart
  \/ StorageGetServed
  \/ InitializeFromStore
  \/ DeliverToTab

SpecSync == Init /\ [][NextSync]_vars

\* the manager driven by any client
NextManager ==
  \/ RmSetObserver
  \/ \E key \in ListenerKeys : RmAddEventListener(key)
  \/ RmSetTimeout
  \/ \E t \in activeTimers : RmTimerFires(t)
  \/ RmAddStyle
  \/ RmCleanupCall

SpecManager == Init /\ [][NextManager]_vars

\* the content script with cleanup() and failing initialization
NextLifecycle ==
  \/ Next
  \/ Cleanup
  \/ \E usernames \in UsernameLists, showCount \in BOOLEAN, step \in FailSteps :
       InitializeFails(usernames, showCount, step)

SpecLifecycle == Init /\ [][NextLifecycle]_vars

\* the relay in any condition
Relays == {"up", "rejects", "throws"}

\* the content script with a failing relay and a runtime that can go away
NextBestEffort == Next \/ RuntimeInvalidated

\* the state after construction, the relay in any condition
InitBestEffort == Constructed /\ relay \in Relays

SpecBestEffort == InitBestEffort /\ [][NextBestEffort]_vars

\* the background script with the tabs and the senders of runtime messages
NextBackground ==
  \/ \E t \in Tabs, message \in ContentBadgeMessages : ContentSends(t, message)
  \/ \E sender \in Tabs \cup {NoTab},
        message \in RejectedBadgeMessages \cup ColorlessBadgeMessages :
          OtherSends(sender, message)
  \/ \E message \in ContentBadgeMessages : OtherSends(NoTab, message)
  \/ \E i \in 1..Len(inFlight) : BgReceive(i)
  \/ \E t \in Tabs, url \in Urls, seen \in Urls \cup {NoUrl} : TabNavigates(t, url, seen)
  \/ \E t \in Tabs : TabLoaded(t)
  \/ \E t \in Tabs : TabCloses(t)

\* the state after construction, seen from the background script
InitBackground == Init /\ attached = {} /\ runtimeValid

SpecBackground == InitBackground /\ [][NextBackground]_vars

\* popup handlers that overlap at their awaits
NextOverlap ==
  \/ \E h \in Handlers, input \in PopupInputs : StartAdd(h, input)
  \/ \E h \in Handlers, username \in PopupNames : StartRemove(h, username)
  \/ \E h \in Handlers : StartClear(h)
  \/ \E h \in Handlers, text \in ForeignFiles : StartImport(h, text)
  \/ \E h \in Handlers : FileRead(h)
  \/ \E h \in Handlers : GetServed(h)
  \/ \E h \in Handlers : Resume(h)
  \/ \E h \in Handlers : SetResolved(h)
  \/ notifyContentScript

\* the state after construction, seen from the popup
InitOverlap == Init /\ attached = {} /\ runtimeValid

SpecOverlap == InitOverlap /\ [][NextOverlap]_vars

(***************************************************************************)
(* Vocabulary of the properties                                            *)
(***************************************************************************)
\* the seller links attached to the document
AttachedLinks == {l \in Links : l \in SeqToSet(InDocument[attached])}

\* the seller name a link shows: its trimmed username text, <<>> if it has none
SellerName(l) ==
  LET w == UsernameWrapperOf[<<attached, l>>]
  IN  IF w = None THEN <<>> ELSE Trim(TextContent[w])

\* the product cards of the document: the containers of its seller links
Cards == {ContainerOf[<<attached, l>>] : l \in AttachedLinks} \ {None}

\* the seller names shown on a card
SellersOf(c) ==
  {SellerName(l) : l \in {k \in AttachedLinks : ContainerOf[<<attached, k>>] = c}}
    \ {<<>>}

\* the cards that show exactly one seller, and that seller
SingleSellerCards == {c \in Cards : Cardinality(SellersOf(c)) = 1}
SellerOf(c) == CHOOSE s \in SellersOf(c) : TRUE

\* the hidden marker of every card with one seller agrees with the filter set
MarkersAgree ==
  \A c \in SingleSellerCards : (c \in filteredAttr) <=> (SellerOf(c) \in filteredUsernames)

\* the steps that complete a scan pass
InitialScanStep ==
  \E usernames \in UsernameLists, showCount \in BOOLEAN :
    InitializeLoaded(usernames, showCount)
ResetScanStep == resetCount' = resetCount + 1
BatchPassStep == passCount' = passCount + 1
ScanPassStep == InitialScanStep \/ ResetScanStep \/ BatchPassStep

\* elements attached to the document that carry data-filtered
AttachedHidden == filteredAttr \cap SeqToSet(InDocument[attached])

(***************************************************************************)
(* C1: after every scan pass (initial scan, mutation-batch pass, rescan of *)
(* an updateFilters reset) each attached card with seller s carries        *)
(* data-filtered iff s is in filteredUsernames (exact string match).       *)
(***************************************************************************)
C1_MarkersAgreeAfterScanPass == [][ScanPassStep => MarkersAgree']_vars

(***************************************************************************)
(* C3: whenever no scan pass is executing, blockedCount equals the number  *)
(* of elements attached to the document that carry data-filtered.          *)
(***************************************************************************)
C3_CountIsAttachedHidden == blockedCount = Cardinality(AttachedHidden)

(***************************************************************************)
(* C2: handling updateFilters with the list U makes filteredUsernames      *)
(* exactly the set of strings of U, and leaves blockedCount equal to the   *)
(* number of attached cards whose seller is in U, whatever the set, the    *)
(* count and the markers were before.  A card showing several sellers is   *)
(* counted when U holds all of them or none.                               *)
(***************************************************************************)
UpdateFiltersMessages == {m \in ValidMessages : m.action = "updateFilters"}
Listed(m) == {m.usernames.items[i].s : i \in 1..Len(m.usernames.items)}
CardsWithSellerIn(U) == {c \in Cards : SellersOf(c) # {} /\ SellersOf(c) \subseteq U}
NoMixedCard(U) == \A c \in Cards : SellersOf(c) \subseteq U \/ SellersOf(c) \cap U = {}

C2_UpdateFiltersReplacesAndCounts ==
  [][\A m \in UpdateFiltersMessages :
       handleMessage(m) =>
         /\ filteredUsernames' = Listed(m)
         /\ NoMixedCard(Listed(m)) =>
              blockedCount' = Cardinality(CardsWithSellerIn(Listed(m)))]_vars

\* an update to {b, B} has been handled and hides the two cards of b and B
C2_Witness ==
  /\ resetCount = 1
  /\ filteredUsernames = {<<"b">>, <<"B">>}
  /\ blockedCount = 2
  /\ AttachedHidden = {"K1", "K2"}

(***************************************************************************)
(* C4: a burst of observer callbacks that all arrive before the debounce   *)
(* timer fires gets one processing pass and one updateBadge message,       *)
(* however many nodes it added and however long the animation frame is     *)
(* delayed: every debounce window accounts for at most one armed timer,    *)
(* requested frame or pass; every pass sends exactly one updateBadge; and  *)
(* once a single burst has settled, exactly one pass has run and it has    *)
(* drained all accumulated nodes.                                          *)
(***************************************************************************)
Quiescent == records = <<>> /\ activeTimers = {} /\ rafQueue = 0

\* updateBadge messages sent outside processing passes
OtherBadges == (IF pc = "ready" THEN 2 ELSE 0) + (msgCount - errorLog)

C4_OnePassOneBadgePerBurst ==
  /\ passCount + rafQueue + Cardinality(activeTimers) <= burstCount
  /\ badgeSent = OtherBadges + passCount
  /\ (burstCount = 1 /\ Quiescent) => (passCount = 1 /\ pendingMutations = <<>>)

\* one burst of two callbacks that added four cards has been processed
C4_Witness ==
  /\ burstCount = 1
  /\ Len(rmTimers) = 2
  /\ Quiescent
  /\ passCount = 1
  /\ {"K1", "K2", "K3", "K4"} \subseteq processedAttr
  /\ badgeSent = 3

(***************************************************************************)
(* C5: a message that fails validation is rejected inside the handler and  *)
(* changes neither filteredUsernames, the show-count flag, blockedCount    *)
(* nor any marker; no reset, rescan or badge update happens.               *)
(***************************************************************************)
C5_RejectedMessageChangesNothing ==
  [][\A m \in InvalidMessages :
       handleMessage(m) =>
         /\ errorLog' = errorLog + 1
         /\ UNCHANGED <<filteredUsernames, showBlockedCount, blockedCount,
                        filteredAttr, processedAttr, processedElements, ficCount,
                        resetCount, lastBadge, badgeSent>>]_vars

\* a message has been rejected while a card was hidden
C5_Witness == errorLog >= 1 /\ blockedCount >= 1 /\ AttachedHidden # {}

(***************************************************************************)
(* C6: every updateBadge message has the decimal blockedCount as text and  *)
(* the blocked colour when show-count is on and blockedCount > 0, and the  *)
(* empty text and the neutral colour otherwise.                            *)
(***************************************************************************)
RECURSIVE DecimalValue(_)
\* the number a string of decimal digits denotes, -1 if it is not one
DecimalValue(text) ==
  LET last == text[Len(text)]
      d == CHOOSE k \in 0..9 :
             <<"0", "1", "2", "3", "4", "5", "6", "7", "8", "9">>[k + 1] = last
      rest == DecimalValue(SubSeq(text, 1, Len(text) - 1))
  IN  IF text = <<>> THEN 0
      ELSE IF last \notin {"0", "1", "2", "3", "4", "5", "6", "7", "8", "9"} THEN -1
      ELSE IF rest < 0 THEN -1 ELSE 10 * rest + d

C6_BadgeTextAndColor ==
  badgeSent > 0 =>
    IF showBlockedCount /\ blockedCount > 0
      THEN /\ lastBadge.text # <<>>
           /\ Head(lastBadge.text) # "0"
           /\ DecimalValue(lastBadge.text) = blockedCount
           /\ lastBadge.color = "#f44336"
      ELSE /\ lastBadge.text = <<>>
           /\ lastBadge.color = "#4CAF50"

\* the badge shows "2" in the blocked colour
C6_Witness ==
  /\ showBlockedCount
  /\ blockedCount = 2
  /\ lastBadge = [action |-> "updateBadge", text |-> <<"2">>, color |-> "#f44336"]

(***************************************************************************)
(* C7: filterElement is idempotent: on a (link, container) pair whose      *)
(* marker already agrees with the membership of its seller it changes      *)
(* neither the marker nor blockedCount, a second application changes       *)
(* nothing, and blockedCount moves by +1 exactly on a visible-to-hidden    *)
(* and by -1 exactly on a hidden-to-visible transition.                    *)
(***************************************************************************)
\* the pairs findElementsInNode can yield in the current page
Pairs ==
  {[link |-> l, parent |-> ContainerOf[<<attached, l>>]] :
     l \in {k \in AttachedLinks : ContainerOf[<<attached, k>>] # None}}

Agrees(el) ==
  (el.parent \in filteredAttr) <=> (SellerName(el.link) \in filteredUsernames)

C7_FilterElementIdempotent ==
  \A el \in Pairs :
    LET once == filterElement(attached, filteredUsernames, Engine, el)
        twice == filterElement(attached, filteredUsernames, once, el)
        wasHidden == el.parent \in filteredAttr
        isHidden == el.parent \in once.fattr
    IN  /\ twice = once
        /\ Agrees(el) => once = Engine
        /\ once.count - blockedCount =
             IF ~wasHidden /\ isHidden THEN 1
             ELSE IF wasHidden /\ ~isHidden THEN -1 ELSE 0
        /\ once.fattr \ {el.parent} = filteredAttr \ {el.parent}

\* a card that is hidden, rightly, and counted
C7_Witness ==
  /\ blockedCount = 1
  /\ \E el \in Pairs :
       /\ el.parent \in filteredAttr
       /\ SellerName(el.link) \in filteredUsernames

(***************************************************************************)
(* C8: between two full resets findItemContainer runs at most once on each *)
(* seller link, whatever scans overlap, also for a link without container  *)
(* and for a link whose container was already marked through another link. *)
(***************************************************************************)
C8_ContainerResolvedOncePerLink == \A l \in Links : ficCount[l] <= 1

(***************************************************************************)
(* C9: however an updateFilters message interleaves with a mutation burst, *)
(* once the pending set is drained every attached card is hidden iff its   *)
(* seller is in the new set, and every hidden card is counted once.        *)
(***************************************************************************)
C9_SettledAfterUpdateAndBurst ==
  (resetCount >= 1 /\ burstCount >= 1 /\ Quiescent /\ pendingMutations = <<>>) =>
    /\ MarkersAgree
    /\ filteredAttr \subseteq SeqToSet(InDocument[attached]) =>
         blockedCount = Cardinality(filteredAttr)

(***************************************************************************)
(* C10: a card goes Unseen -> Visible or Hidden at its first scan, decided *)
(* by the filteredUsernames of that moment, and afterwards its hidden      *)
(* marker changes only while an updateFilters message is handled: no batch *)
(* pass, updateShowCount message or badge update changes the marker of a   *)
(* card already scanned.                                                   *)
(***************************************************************************)
\* c carries the marker its one seller calls for
DecidedBySeller(c) ==
  c \in SingleSellerCards => ((c \in filteredAttr) <=> (SellerOf(c) \in filteredUsernames))

C10_MarkerChangesOnlyOnUpdateFilters ==
  [][/\ \A c \in Elements :
          ((c \in filteredAttr) # (c \in filteredAttr')) =>
            \/ ResetScanStep
            \/ c \in processedAttr' \ processedAttr
     /\ \A c \in processedAttr' \ processedAttr : DecidedBySeller(c)']_vars

\* a batch pass has run over a scanned, visible card whose only seller is now
\* filtered, and has left it visible
C10_Witness ==
  /\ passCount >= 1
  /\ \E c \in SingleSellerCards :
       /\ c \in processedAttr \ filteredAttr
       /\ SellerOf(c) \in filteredUsernames

(***************************************************************************)
(* C11: handling a valid updateShowCount message sets the show-count flag  *)
(* to the value of the message and sends exactly one updateBadge message;  *)
(* filteredUsernames, blockedCount, the seen and hidden markers and        *)
(* pendingMutations are unchanged.                                         *)
(***************************************************************************)
UpdateShowCountMessages == {m \in ValidMessages : m.action = "updateShowCount"}

C11_ShowCountToggleOnlyTouchesBadge ==
  [][\A m \in UpdateShowCountMessages :
       handleMessage(m) =>
         /\ showBlockedCount' = m.showCount.b
         /\ badgeSent' = badgeSent + 1
         /\ lastBadge'.action = "updateBadge"
         /\ UNCHANGED <<filteredUsernames, blockedCount, processedAttr,
                        processedElements, filteredAttr, pendingMutations,
                        resetCount, ficCount>>]_vars

\* the flag has been switched on by a message while a card was hidden and a
\* node was pending
C11_Witness ==
  /\ msgCount = 1
  /\ resetCount = 0
  /\ errorLog = 0
  /\ showBlockedCount
  /\ blockedCount = 1
  /\ pendingMutations # <<>>
  /\ lastBadge.text = <<"1">>

(***************************************************************************)
(* C12: after a cleanup() call no engine callback runs any more: no later  *)
(* message, timer expiry or already scheduled animation-frame callback     *)
(* changes filteredUsernames, blockedCount or a card marker, or sends an   *)
(* updateBadge message.                                                    *)
(***************************************************************************)
C12_NothingRunsAfterCleanup ==
  [][cleanupCount >= 1 =>
       UNCHANGED <<filteredUsernames, blockedCount, filteredAttr, processedAttr,
                   badgeSent, lastBadge>>]_vars

(***************************************************************************)
(* C13: ContentResourceManager.cleanup() disconnects the observer, removes *)
(* every recorded listener, cancels every recorded timer, removes every    *)
(* recorded style and empties all records; a second call disconnects,      *)
(* removes and cancels nothing and leaves the manager empty.               *)
(***************************************************************************)
ManagerEmpty ==
  ~rmObserver /\ rmListeners = <<>> /\ rmTimers = <<>> /\ rmStyles = 0

C13_CleanupReleasesAllAndIsIdempotent ==
  [][cleanupCount' = cleanupCount + 1 =>
       /\ ManagerEmpty'
       /\ rmObserver => ~observing'
       /\ domListeners' \cap SeqToSet(rmListeners) = {}
       /\ domListeners' \cup SeqToSet(rmListeners) = domListeners
       /\ activeTimers' \cap SeqToSet(rmTimers) = {}
       /\ activeTimers' \cup SeqToSet(rmTimers) = activeTimers \cup SeqToSet(rmTimers)
       /\ styleCount' = styleCount - rmStyles
       /\ ManagerEmpty =>
            /\ releaseCount' = 0
            /\ UNCHANGED <<observing, rmVars, rmTimers, activeTimers>>]_vars

\* one cleanup() has released an observer, two listeners, two timers and two
\* styles
C13_Witness ==
  /\ cleanupCount = 1
  /\ releaseCount = 1 + MaxRecords + MaxRecords + MaxRecords
  /\ ManagerEmpty
  /\ ~observing
  /\ domListeners = {}
  /\ activeTimers = {}
  /\ styleCount = 0

(***************************************************************************)
(* C14: without a runtime id initialize() returns at once: the settings    *)
(* are not read, no style is injected, nothing is scanned, no observer or  *)
(* message handler is registered, no badge update is sent and the engine   *)
(* keeps its constructed defaults.                                         *)
(***************************************************************************)
C14_NoRuntimeNoInitialize ==
  ~runtimeValid =>
    /\ pc \in {"start", "skipped"}
    /\ filteredUsernames = {}
    /\ ~showBlockedCount
    /\ blockedCount = 0
    /\ filteredAttr = {} /\ processedAttr = {} /\ processedElements = {}
    /\ \A l \in Links : ficCount[l] = 0
    /\ ~observing /\ ~listening /\ ~rmObserver
    /\ records = <<>> /\ pendingMutations = <<>>
    /\ styleCount = 0 /\ rmStyles = 0
    /\ badgeSent = 0 /\ lastBadge = NoBadge

\* initialize() has returned early on a page that shows cards and changes
C14_Witness ==
  /\ pc = "skipped"
  /\ ~runtimeValid
  /\ "S" \in attached
  /\ pageOps >= 1

C16_BadgeFailureChangesNothingElse ==
  [][SendOutcome # "delivered" =>
       /\ UNCHANGED badgeVars
       /\ \A u \in UsernameLists, sc \in BOOLEAN :
            InitializeLoaded(u, sc) =>
              /\ pc' = "ready" /\ observing' /\ listening'
              /\ filteredUsernames' = NewSet(u)
              /\ Engine' = filterExistingContent(attached, NewSet(u), Engine)
       /\ BatchPassStep =>
            /\ pendingMutations' = <<>>
            /\ Engine' = ProcessNodes(attached, filteredUsernames, Engine,
                                      pendingMutations)
       /\ \A m \in UpdateFiltersMessages :
            handleMessage(m) =>
              /\ errorLog' = errorLog
              /\ filteredUsernames' = Listed(m)
              /\ Engine' = resetAndRefilter(attached, Listed(m), Engine)
       /\ \A m \in UpdateShowCountMessages :
            handleMessage(m) =>
              /\ errorLog' = errorLog
              /\ showBlockedCount' = m.showCount.b
              /\ UNCHANGED <<domVars, filteredUsernames>>]_vars

\* with a relay that throws, the script has initialized, processed a batch
\* and handled an updateFilters message, and hides a card
C16_Witness ==
  /\ relay = "throws"
  /\ pc = "ready"
  /\ passCount >= 1
  /\ resetCount >= 1
  /\ blockedCount >= 1
  /\ AttachedHidden # {}
  /\ badgeSent = 0
  /\ errorLog = 0

(***************************************************************************)
(* C17: at most one debounce timer is armed at any time: a callback that   *)
(* finds pendingMutations non-empty cancels the armed timer before arming  *)
(* a new one; no pending node is dropped: every element node of a record   *)
(* enters the set and the set shrinks only when a processing pass clears   *)
(* it.                                                                     *)
(***************************************************************************)
AddedElements ==
  UNION {{n \in SeqToSet(records[i].addedNodes) : n # TextNode} :
           i \in 1..Len(records)}

C17_OneTimerNoNodeDropped ==
  /\ [](Cardinality(activeTimers) <= 1)
  /\ [][/\ nextTimerId' # nextTimerId =>
             /\ activeTimers' = {nextTimerId}
             /\ mutationTimeout' = nextTimerId
        /\ records # <<>> /\ records' = <<>> =>
             SeqToSet(pendingMutations') = SeqToSet(pendingMutations) \cup AddedElements
        /\ ~(SeqToSet(pendingMutations) \subseteq SeqToSet(pendingMutations')) =>
             BatchPassStep /\ pendingMutations' = <<>>]_vars

\* a second callback has re-armed the timer inside the window of the first
\* and both added nodes are pending
C17_Witness ==
  /\ Len(rmTimers) = 2
  /\ activeTimers = {mutationTimeout}
  /\ Len(pendingMutations) = 2
  /\ passCount = 0
  /\ burstCount = 1

(***************************************************************************)
(* C18: every element node the page adds under the body after              *)
(* initialization and that stays attached is eventually scanned: a         *)
(* processing pass removes it from pendingMutations and every card under   *)
(* it is marked as seen, provided observer callbacks, timers and animation *)
(* frames eventually run.                                                  *)
(***************************************************************************)
\* n has left the pending set and every card a seller link under n resolves
\* to carries data-filtered-processed
Scanned(n) ==
  /\ n \notin SeqToSet(pendingMutations)
  /\ n \notin AddedElements
  /\ \A i \in 1..Len(SellerLinksIn[<<attached, n>>]) :
       LET c == ContainerOf[<<attached, SellerLinksIn[<<attached, n>>][i]>>]
       IN  c # None => c \in processedAttr

C18_AddedNodeEventuallyScanned ==
  \A n \in Detachable :
    (n \in AddedElements) ~>
      (n \notin SeqToSet(InDocument[attached]) \/ Scanned(n))

\* the section S was added after initialization and a batch pass has hidden
\* the card of the filtered seller under it
C18_Witness ==
  /\ pc = "ready"
  /\ attached = {"S"}
  /\ pageOps = 1
  /\ passCount = 1
  /\ resetCount = 0
  /\ Scanned("S")
  /\ "K1" \in filteredAttr

(***************************************************************************)
(* C19: whenever no popup operation is in flight and every sent message    *)
(* has been delivered, the FilteredUsernameSet of the content script of an *)
(* open fab.com tab equals the username list in the settings store, for    *)
(* every interleaving of initialize() with popup edits and for every tab.  *)
(***************************************************************************)
C19_SetFollowsStore ==
  (pc = "ready" /\ outbox = <<>> /\ msgCount = Len(sentToTab))
    => filteredUsernames = NewSet(storedUsernames)

(***************************************************************************)
(* C20: importing the file that exportList wrote leaves the stored         *)
(* username list equal to the list at export time and passes an            *)
(* updateFilters message with that list to notifyContentScript; when both  *)
(* the export and the import are those of the newer popup, the hideLibrary *)
(* setting (read through || false) is the one at export time as well.      *)
(***************************************************************************)
C20_ExportImportRoundTrip ==
  [][/\ (exportFile # NoFile /\ (importList(exportFile) \/ importListOlder(exportFile))) =>
          /\ storedUsernames' = exportedFrom.usernames
          /\ outbox' # <<>>
          /\ Head(outbox') = UpdateFiltersMsg(exportedFrom.usernames)
     /\ (exportFile # NoFile /\ exportedFrom.popup = "newer" /\ importList(exportFile)) =>
          OrFalse(storedHideLibrary') = OrFalse(exportedFrom.hideLibrary)]_vars

\* the newer popup has just imported a file with a settings member, which only
\* its own export has: the export of a two-name list with hideLibrary on
C20_Witness ==
  /\ exportedFrom.popup = "newer"
  /\ Len(exportedFrom.usernames) = 2
  /\ storedUsernames = exportedFrom.usernames
  /\ storedHideLibrary = Bool(TRUE)
  /\ outbox = <<UpdateFiltersMsg(storedUsernames), UpdateHideLibraryMsg>>

(***************************************************************************)
(* C21: the outcome of a processing pass does not depend on the order in   *)
(* which the nodes of the batch are scanned: for every permutation of the  *)
(* batch the hidden markers, the seen markers and BlockedCount after the   *)
(* pass are those the pass produced.                                       *)
(***************************************************************************)
\* the orders in which the nodes of a batch can be scanned
PermutationsOf(nodes) ==
  {p \in [1..Len(nodes) -> SeqToSet(nodes)] : SeqToSet(p) = SeqToSet(nodes)}

\* the engine after the pass of the current batch scanned in the order p
PassOutcome(p) == ProcessNodes(attached, filteredUsernames, Engine, p)

C21_PassOrderIrrelevant ==
  [][AnimationFrame =>
       \A p \in PermutationsOf(pendingMutations) :
         /\ PassOutcome(p).fattr = filteredAttr'
         /\ PassOutcome(p).pattr = processedAttr'
         /\ PassOutcome(p).count = blockedCount']_vars

(***************************************************************************)
(* C22: BlockedCount is never negative in any reachable state, under any   *)
(* sequence of scans, resets, detachments and re-attachments of cards; a   *)
(* scan lowers the count only for a container that carries the hidden      *)
(* marker, and every hidden container carries the seen marker.             *)
(***************************************************************************)
C22_CountNeverNegative ==
  /\ [](blockedCount >= 0 /\ filteredAttr \subseteq processedAttr)
  /\ [][blockedCount' < blockedCount =>
          \/ ResetScanStep
          \/ Cardinality(filteredAttr') < Cardinality(filteredAttr)]_vars

\* a hidden card was detached, the filters were reset, and the section came
\* back with the card still hidden and was scanned: the count stays at 0
C22_Witness ==
  /\ blockedCount = 0
  /\ filteredAttr # {}
  /\ "S" \in attached
  /\ resetCount = 1
  /\ passCount = 1
  /\ pageOps = MaxPageOps

(***************************************************************************)
(* C23: when the seller link has no username sub-element or its trimmed    *)
(* text is empty, filterElement changes nothing (hidden markers, count     *)
(* and, with them, the username set), whatever strings the username set    *)
(* holds; the container carries the seen marker once scanned, no search    *)
(* returns a container that carries it, and the marker stays until a full  *)
(* reset.                                                                  *)
(***************************************************************************)
\* the link has no username sub-element, or its trimmed text is empty
Nameless(l) ==
  LET w == UsernameWrapperOf[<<attached, l>>]
  IN  w = None \/ Trim(TextContent[w]) = <<>>

\* the cards all of whose seller links are nameless
NamelessCards ==
  {c \in {ContainerOf[<<attached, l>>] : l \in Links} \ {None} :
     \A l \in Links : ContainerOf[<<attached, l>>] = c => Nameless(l)}

\* the username sets a valid updateFilters message can leave: any strings,
\* the empty string included
AnyNames == SUBSET {<<>>, <<"b">>, <<"c">>}

\* what a search below node returns in the current state
FoundNow(node) ==
  findElementsInNode(attached, node,
    [elements |-> <<>>, processed |-> processedElements,
     pattr |-> processedAttr, fic |-> ficCount]).elements

\* a seller link below node resolves to the container c
FoundBelow(node, c) ==
  \E i \in 1..Len(SellerLinksIn[<<attached, node>>]) :
    ContainerOf[<<attached, SellerLinksIn[<<attached, node>>][i]>>] = c

C23_NamelessLinkIsNoOp ==
  /\ [](\A l \in Links :
          Nameless(l) /\ ContainerOf[<<attached, l>>] # None =>
            \A names \in AnyNames :
              filterElement(attached, names, Engine,
                            [link |-> l, parent |-> ContainerOf[<<attached, l>>]])
                = Engine)
  /\ [](NamelessCards \cap filteredAttr = {})
  /\ [](\A node \in ScanRoots : \A i \in 1..Len(FoundNow(node)) :
          FoundNow(node)[i].parent \notin processedAttr)
  /\ [][/\ InitialScanStep \/ ResetScanStep =>
             \A c \in NamelessCards :
               FoundBelow(Document, c) => c \in processedAttr'
        /\ BatchPassStep =>
             \A c \in NamelessCards :
               (\E i \in 1..Len(pendingMutations) :
                  /\ pendingMutations[i] \in SeqToSet(InDocument[attached])
                  /\ FoundBelow(pendingMutations[i], c))
                 => c \in processedAttr'
        /\ \A c \in NamelessCards :
             c \in processedAttr /\ c \notin processedAttr' => ResetScanStep]_vars

\* the section was scanned with a non-empty username set: the card with the
\* empty username and the card without a username element are seen and not
\* hidden, while the card of seller b is hidden and counted
C23_Witness ==
  /\ NamelessCards = {"K3", "K4"}
  /\ NamelessCards \subseteq processedAttr
  /\ filteredAttr = {"K1"}
  /\ blockedCount = 1
  /\ passCount = 1

(***************************************************************************)
(* C24: a pending node that is no longer attached to the document when its *)
(* batch is processed is discarded without being scanned: neither it nor   *)
(* any element below it gets a seen or hidden marker, the markers and      *)
(* BlockedCount after the pass are those of a pass over the nodes still    *)
(* attached, and the node is not pending after the pass.                   *)
(***************************************************************************)
\* the pending nodes that document.contains no longer finds
GonePending ==
  {n \in SeqToSet(pendingMutations) : n \notin SeqToSet(InDocument[attached])}

\* a node and the elements below it
TreeOf(n) == {n} \cup SeqToSet(DescendantsOf(attached, n))

\* the pass over the pending nodes that are still attached
PassOverAttached ==
  ProcessNodes(attached, filteredUsernames, Engine,
               SelectSeq(pendingMutations, LAMBDA n : n \notin GonePending))

C24_DetachedPendingNodeDiscarded ==
  [][AnimationFrame =>
       /\ pendingMutations' = <<>>
       /\ filteredAttr' = PassOverAttached.fattr
       /\ processedAttr' = PassOverAttached.pattr
       /\ processedElements' = PassOverAttached.processed
       /\ blockedCount' = PassOverAttached.count
       /\ \A n \in GonePending :
            /\ processedAttr' \cap TreeOf(n) = processedAttr \cap TreeOf(n)
            /\ filteredAttr' \cap TreeOf(n) = filteredAttr \cap TreeOf(n)
            /\ processedElements' \cap TreeOf(n) = processedElements \cap TreeOf(n)]_vars

\* the section with the card of the filtered seller b was added and removed
\* again before its batch is processed; the pass is due. (A discarded node
\* leaves no trace, so the case shows in the state the pass starts from.)
C24_Witness ==
  /\ rafQueue > 0
  /\ records = <<>>
  /\ "S" \in GonePending
  /\ <<"b">> \in filteredUsernames
  /\ ContainerOf[<<attached, "L1">>] \notin processedAttr

(***************************************************************************)
(* C25: every message the popup hands to notifyContentScript (after add,   *)
(* remove, clear, import and the hide-library toggle) is one the content   *)
(* script's MessageValidator accepts.                                      *)
(***************************************************************************)
C25_PopupMessagesAccepted ==
  \A i \in 1..Len(outbox) : validate(outbox[i]) = "ok"

(***************************************************************************)
(* C26: every updateBadge message the content script can emit is accepted  *)
(* by the background validator and applied to the sending tab only: badge  *)
(* text, colour and stored state of that tab become those of the message,  *)
(* badge and stored state of every other tab are unchanged, and a message  *)
(* without sender tab changes nothing.                                     *)
(***************************************************************************)
\* the badge and the stored state of tab t stay as they are
BadgeUnchanged(t) ==
  /\ tabBadgeStates'[t] = tabBadgeStates[t]
  /\ badgeText'[t] = badgeText[t]
  /\ badgeColor'[t] = badgeColor[t]

C26_BadgeAppliedToSenderOnly ==
  /\ [](\A m \in ContentBadgeMessages : validateBackground(m) = "ok")
  /\ [][\A i \in 1..Len(inFlight) :
          BgReceive(i) /\ inFlight[i].message \in ContentBadgeMessages =>
            /\ bgErrors' = bgErrors
            /\ \A t \in Tabs :
                 IF t = inFlight[i].sender
                   THEN /\ tabBadgeStates'[t] = [text |-> inFlight[i].message.text,
                                                 color |-> inFlight[i].message.color]
                        /\ badgeText'[t] = inFlight[i].message.text
                        /\ badgeColor'[t] = inFlight[i].message.color
                   ELSE BadgeUnchanged(t)]_vars

\* tab 1 shows the count 1 of its content script; tab 2, still open, shows
\* nothing and has no stored state
C26_Witness ==
  /\ tabBadgeStates[1] = [text |-> Str(<<"1">>),
                          color |-> [type |-> "string", s |-> BlockedColor]]
  /\ badgeText[1] = Str(<<"1">>)
  /\ tabBadgeStates[2] = NoEntry
  /\ badgeText[2] = Str(<<>>)
  /\ tabOpen[1] /\ tabOpen[2]
  /\ inFlight = <<>>

(***************************************************************************)
(* C27: a message the background validator rejects (not an object, action  *)
(* other than updateBadge, non-string text, truthy non-string colour)      *)
(* changes no tab's badge text, badge colour or entry in tabBadgeStates;   *)
(* the listener catches the error and logs it.                             *)
(***************************************************************************)
C27_RejectedBadgeMessageChangesNothing ==
  /\ [](\A m \in RejectedBadgeMessages : validateBackground(m) # "ok")
  /\ [][\A i \in 1..Len(inFlight) :
          BgReceive(i) /\ inFlight[i].message \in RejectedBadgeMessages =>
            /\ UNCHANGED <<tabBadgeStates, badgeText, badgeColor>>
            /\ bgErrors' = bgErrors + 1]_vars

\* a message was rejected while tab 1 showed a count
C27_Witness ==
  /\ bgErrors = 1
  /\ bgSent = 2
  /\ inFlight = <<>>
  /\ badgeText[1] = Str(<<"1">>)
  /\ tabBadgeStates[1] # NoEntry

(***************************************************************************)
(* C28: a tab that has navigated away from fab.com has an empty badge and  *)
(* no entry in tabBadgeStates, and tabBadgeStates holds no entry for a     *)
(* closed tab, whatever the order of the navigation or close event and the *)
(* updateBadge messages of the page that was left.                         *)
(***************************************************************************)
C28_NoBadgeStateAfterLeaving ==
  \A t \in Tabs :
    /\ ~tabOpen[t] => tabBadgeStates[t] = NoEntry
    /\ tabOpen[t] /\ tabUrl[t] # FabUrl =>
         /\ tabBadgeStates[t] = NoEntry
         /\ badgeText[t] = Str(<<>>)

(***************************************************************************)
(* C29: the username list in the settings store is always a valid set:     *)
(* after any sequence of add, remove, clear-all and import operations,     *)
(* interleaved in any way, it has no duplicate entry and every entry is a  *)
(* trimmed, non-empty string of at most 100 characters of the permitted    *)
(* alphabet.                                                               *)
(***************************************************************************)
ValidName(v) ==
  /\ v.type = "string"
  /\ v.s # <<>>
  /\ Trim(v.s) = v.s
  /\ Len(v.s) <= 100
  /\ \A i \in 1..Len(v.s) : v.s[i] \in PatternChars

C29_StoredListIsValidSet ==
  /\ \A i \in 1..Len(storedUsernames) : ValidName(storedUsernames[i])
  /\ \A i, j \in 1..Len(storedUsernames) :
       storedUsernames[i] = storedUsernames[j] => i = j

\* the names b and c are stored, c trimmed from a padded input or file
\* entry, while a remove of b that read the list before c was stored is
\* still to write
C29_Witness ==
  /\ storedUsernames = <<Str(<<"b">>), Str(<<"c">>)>>
  /\ \E h \in Handlers :
       /\ running[h] # NoHandler
       /\ running[h].op = "remove"
       /\ running[h].at = "got"
       /\ running[h].list = <<Str(<<"b">>)>>

(***************************************************************************)
(* C30: no popup edit is lost, also when two popup operations overlap at   *)
(* their storage read and write steps: a name whose add reported success   *)
(* is in the stored list until a later remove of it, clear-all or import,  *)
(* and a name whose remove reported success is absent until it is added    *)
(* or imported again.                                                      *)
(***************************************************************************)
C30_NoEditLost ==
  /\ present \subseteq SeqToSet(storedUsernames)
  /\ absent \cap SeqToSet(storedUsernames) = {}

(***************************************************************************)
(* C31: a failed import (text that is not JSON, JSON that is neither an    *)
(* object with a usernames array nor an array, and in the older popup any  *)
(* username that fails sanitization) changes neither the stored username   *)
(* list nor the stored settings and hands no message to                    *)
(* notifyContentScript; a successful import stores exactly the sanitized   *)
(* usernames of the file, each once, in the order of the file, whatever    *)
(* list was stored before.                                                 *)
(***************************************************************************)
\* the entries of the usernames array the newer popup reads from a file
NewerItems(parsed) ==
  IF Get(parsed.value, UsernamesKey).type = "array"
    THEN Get(parsed.value, UsernamesKey).items
    ELSE parsed.value.items

\* the import of the newer popup fails on this file
NewerFails(parsed) ==
  \/ ~parsed.ok
  \/ Get(parsed.value, UsernamesKey).type # "array" /\ parsed.value.type # "array"

\* the import of the older popup fails on this file
OlderFails(parsed) ==
  \/ ~parsed.ok
  \/ Get(parsed.value, UsernamesKey).type # "array"
  \/ \E i \in 1..Len(Get(parsed.value, UsernamesKey).items) :
       /\ Get(parsed.value, UsernamesKey).items[i].type = "string"
       /\ ~sanitizeUsername(Get(parsed.value, UsernamesKey).items[i]).ok

\* the first place in items whose sanitized value is v
FirstAt(items, v) ==
  CHOOSE i \in 1..Len(items) :
    /\ sanitizeUsername(items[i]) = Returned(v)
    /\ \A j \in 1..(i - 1) : sanitizeUsername(items[j]) # Returned(v)

\* list holds the sanitized usernames of items, each once, in file order
IsImportOf(items, list) ==
  /\ SeqToSet(list) =
       {sanitizeUsername(items[i]).value :
          i \in {k \in 1..Len(items) : sanitizeUsername(items[k]).ok}}
  /\ \A i, j \in 1..Len(list) :
       i < j => list[i] # list[j] /\ FirstAt(items, list[i]) < FirstAt(items, list[j])

\* JSON.parse of the files that no export wrote
ForeignParsed == [text \in ForeignFiles |-> JSONParse(text)]

\* the step changes the stored list, the stored settings or the messages
\* that wait for notifyContentScript
ImportChanges ==
  <<storedUsernames, storedHideLibrary, outbox>>'
    # <<storedUsernames, storedHideLibrary, outbox>>

\* neither popup's importList, run from JSON.parse on with a file that
\* fails, can change the store or hand over a message
FailedImportIsNoOp(parsed) ==
  /\ NewerFails(parsed) => ~ENABLED (ImportParsed(parsed) /\ ImportChanges)
  /\ OlderFails(parsed) =>
       ~ENABLED (/\ ImportSanitized(SanitizeParsed(parsed))
                 /\ UNCHANGED storedHideLibrary
                 /\ ImportChanges)

\* what a successful import of the file leaves
ImportReplaces(text, parsed) ==
  /\ (~NewerFails(parsed) /\ importList(text)) =>
       /\ IsImportOf(NewerItems(parsed), storedUsernames')
       /\ outbox' # <<>>
       /\ Head(outbox') = UpdateFiltersMsg(storedUsernames')
  /\ (~OlderFails(parsed) /\ importListOlder(text)) =>
       /\ IsImportOf(Get(parsed.value, UsernamesKey).items, storedUsernames')
       /\ outbox' = <<UpdateFiltersMsg(storedUsernames')>>
       /\ storedHideLibrary' = storedHideLibrary

C31_ImportFailsCleanOrReplaces ==
  /\ [](\A text \in ForeignFiles : FailedImportIsNoOp(ForeignParsed[text]))
  /\ [][/\ \A text \in ForeignFiles : ImportReplaces(text, ForeignParsed[text])
        /\ exportFile # NoFile => ImportReplaces(exportFile, JSONParse(exportFile))]_vars

\* the newer popup has just imported its export of the one-name list c, made
\* before hideLibrary was ever set: the list is c, hideLibrary is stored as
\* false, and both messages wait for notifyContentScript
C31_Witness ==
  /\ exportedFrom.popup = "newer"
  /\ exportedFrom.usernames = <<Str(<<"c">>)>>
  /\ exportedFrom.hideLibrary = Undefined
  /\ storedUsernames = <<Str(<<"c">>)>>
  /\ storedHideLibrary = Bool(FALSE)
  /\ outbox = <<UpdateFiltersMsg(storedUsernames), UpdateHideLibraryMsg>>

====
